---- MODULE Spec2Model ----
(***************************************************************************)
(* NL2SQL backend: the agent workflow of agent_service.py, the store       *)
(* service of duckdb_service.py, the schema tools of schema_tools.py, the  *)
(* chat endpoint, the relationships file and the session history.          *)
(*                                                                         *)
(* The state machines share the module, each with its own specification:   *)
(*   Spec / FairSpec : one conversation turn through the workflow graph    *)
(*   CacheSpec       : threads calling get_all_schemas / load_csv /        *)
(*                     delete_table against the schema cache and a clock   *)
(*   ConnSpec        : threads taking _conn_lock and _cache_lock and       *)
(*                     using the shared DuckDB connection                  *)
(*   ExecSpec        : execute_query applied to a statement                *)
(*   JoinSpec        : get_required_joins                                  *)
(*   MapSpec         : _map_concept_to_column                              *)
(*   StructSpec      : resolve_user_concepts and suggest_query_structure   *)
(*   ValidSpec       : validate_sql as the validator node calls it         *)
(*   NameSpec        : validate_table_name and the operations behind it    *)
(*   ChatSpec        : one connection of the chat endpoint                 *)
(*   RelSpec         : relationship requests served one at a time          *)
(*   AddSpec         : two add_relationship requests on two threads        *)
(*   HistSpec        : process_message and the stored session history      *)
(* The variables of the machines a specification does not run stay at      *)
(* their idle values.                                                      *)
(***************************************************************************)
EXTENDS Integers, Sequences, FiniteSets, TLC

VARIABLES
    \* ---- turn state (AgentState) and the graph runner's position
    node,                  \* node the graph runner executes next
    prev,                  \* node that ran last ("start" before the first)
    outcome,               \* which return statement the last node took
    mode,                  \* AgentState.mode
    utter,                 \* content of the last HumanMessage of the transcript
    lastMsg,               \* messages[-1], by the statement that produced it
    hasData,               \* some AIMessage of the transcript is a data_result
    next_step,             \* AgentState.next_step
    sql_query,             \* AgentState.sql_query
    sql_error,             \* AgentState.sql_error
    sql_retry_count,       \* AgentState.sql_retry_count
    pending_chart_request, \* AgentState.pending_chart_request
    resolved_concepts,     \* AgentState.resolved_concepts
    validated,             \* statement the last validator step accepted
    executed,              \* statement the last executor step gave execute_query
    loopAttempts,          \* correction attempts since the last planner step
    turnAttempts,          \* correction attempts since the turn began
    exhausted,             \* the corrector has given up on the retry budget
    raw_output,            \* the answer of the planner's last generation call
    suggested_joins,       \* required_joins of the last suggest_query_structure
    query_structure,       \* AgentState.query_structure, <<>> when None or unset
    join_hint,             \* the joins in the planner's last generation request
    \* ---- DuckDBService: the store, the schema cache, the clock
    now,                   \* time.time()
    ticks,                 \* clock advances so far
    db,                    \* the store: table -> schema version, or "absent"
    schema_cache,          \* DuckDBService._schema_cache: <<>> or <<entry>>
    schema_cache_time,     \* DuckDBService._schema_cache_time
    cth,                   \* per thread: position in its store-service call
    storedAt,              \* clock value of the last entry stored
    stored,                \* an entry was stored and not invalidated since
    mutatedSince,          \* a load/drop returned and no read has begun since
    quiet,                 \* no cache write or mutation since the last read returned
    lastReturned,          \* what the last get_all_schemas call returned
    lastCheck,             \* the last cache lookup of get_all_schemas
    loadedSince,           \* a load_csv returned and no load or drop began since
    readersBefore,         \* threads that were inside a call when it returned
    \* ---- DuckDBService._conn_lock and the shared connection
    lockOwner,             \* thread holding _conn_lock, or "none"
    lockCount,             \* RLock recursion level
    cacheLockOwner,        \* thread holding _cache_lock, or "none"
    cacheLockCount,        \* its recursion level
    cn,                    \* per thread: operation, instruction, inside a conn call
    \* ---- one call of execute_query
    ex_pc,                 \* "called", "returned" or "raised"
    ex_query,              \* the query argument, as its tokens
    ex_rows,               \* size of the result set of the query as written
    ex_sent,               \* the statement given to conn.sql
    ex_returned,           \* len(data) of the result
    \* ---- one call of SchemaToolsService.get_required_joins
    j_pc,                  \* "called", "loop" or "returned"
    j_tables,              \* the tables argument
    j_rels,                \* relationships.get_relationships(), as (source, target)
    j_i,                   \* position of the loop in tables
    j_joined,              \* joined_tables
    j_joins,               \* joins: the table of each clause and the table it joins to
    j_clauses,             \* joins: the tables and columns each clause names
    \* ---- one call of SchemaToolsService._map_concept_to_column
    m_pc,                  \* "called" or "returned"
    m_concept,             \* concept_type
    m_filtered,            \* columns of the first semantic_column_search, best first
    m_fallback,            \* columns of the search repeated without table filter
    m_best,                \* column of the mapping returned, "none" for None
    m_expr,                \* cast_expression of the mapping returned
    \* ---- calls of SchemaToolsService.suggest_query_structure on one utterance
    q_words,               \* the keywords that occur in user_query.lower()
    q_found,               \* table of the column the semantic index gives each concept, or "none"
    q_rels,                \* relationships.get_relationships(), as (source, target)
    q_results,             \* the dict returned by each call so far
    \* ---- one validation: sql_validator_node calling SchemaToolsService.validate_sql
    v_pc,                  \* "called" or "returned"
    v_stmt,                \* the statement: its tokens and the tables it reads
    v_tables,              \* all_tables = list(schema.keys())
    v_explain,             \* what conn.sql("EXPLAIN ...") answers
    v_similar_col,         \* semantic_column_search(bad_col) finds a column
    v_result,              \* the SQLValidationResult
    v_next_step,           \* next_step stored by the validator
    v_node,                \* node the validator edge leads to
    \* ---- one store operation of DuckDBService that takes a table name
    n_pc,                  \* "idle" or "returned"
    n_op,                  \* the operation called
    n_name,                \* its table_name argument, as characters
    n_outcome,             \* "none", "ValueError", "raised" or "done"
    n_sent,                \* the statements given to conn.execute
    n_store,               \* the tables the store holds
    n_cache,               \* _schema_cache: "filled" or "empty"
    \* ---- websocket_endpoint serving one connection
    c_pc,                  \* "receive", "streaming" or "closed"
    c_open,                \* the client still holds the connection
    c_turns,               \* turns started on the connection
    c_pending,             \* responses process_message has still to yield in this turn
    c_failed,              \* a send_text of this turn raised
    c_log,                 \* how send_personal_message ended last: "sent", "pass" or "printed"
    c_delivered,           \* messages of this turn that reached the client
    c_after_failure,       \* send_text calls of this turn made after one raised
    \* ---- RelationshipService and data/relationships.json
    r_text,                \* the list json.load reads from the file, when it parses
    r_readable,            \* the bytes of the file parse as JSON
    r_size,                \* the length of the file
    r_th,                  \* per request thread: its place in add_relationship and its locals
    \* ---- process_message and the messages table of one session
    h_messages,            \* the rows of the session, in the order they were inserted
    h_now,                 \* CURRENT_TIMESTAMP, in seconds
    h_pc,                  \* "idle", or "streaming" while app.astream runs
    h_turn,                \* the number of the turn process_message was last called for
    h_new,                 \* turns started since the initial state
    h_replies,             \* assistant messages saved in this turn
    h_seed                 \* the last entry of the transcript the workflow was seeded with

turnVars == <<node, prev, outcome, mode, utter, lastMsg, hasData, next_step,
              sql_query, sql_error, sql_retry_count, pending_chart_request,
              resolved_concepts, validated, executed, loopAttempts,
              turnAttempts, exhausted, raw_output, suggested_joins,
              query_structure, join_hint>>

cacheVars == <<now, ticks, db, schema_cache, schema_cache_time, cth, storedAt,
               stored, mutatedSince, quiet, lastReturned, lastCheck,
               loadedSince, readersBefore>>

connVars == <<lockOwner, lockCount, cacheLockOwner, cacheLockCount, cn>>

execVars == <<ex_pc, ex_query, ex_rows, ex_sent, ex_returned>>

joinVars == <<j_pc, j_tables, j_rels, j_i, j_joined, j_joins, j_clauses>>

mapVars == <<m_pc, m_concept, m_filtered, m_fallback, m_best, m_expr>>

structVars == <<q_words, q_found, q_rels, q_results>>

validVars == <<v_pc, v_stmt, v_tables, v_explain, v_similar_col, v_result,
               v_next_step, v_node>>

nameVars == <<n_pc, n_op, n_name, n_outcome, n_sent, n_store, n_cache>>

chatVars == <<c_pc, c_open, c_turns, c_pending, c_failed, c_log, c_delivered, c_after_failure>>

relVars == <<r_text, r_readable, r_size, r_th>>

histVars == <<h_messages, h_now, h_pc, h_turn, h_new, h_replies, h_seed>>

vars == <<turnVars, cacheVars, connVars, execVars,
         joinVars, mapVars, structVars, validVars,
         nameVars, chatVars, relVars, histVars>>

----------------------------------------------------------------------------
(* Bounds of the model *)

\* the attempt counters of a turn are observers and saturate here
MaxCounted == 5

\* clock advances in one run of the cache machine
MaxTicks == 3

\* tokens after the first one in a query given to execute_query
MaxBody == 2

\* length of the table list given to get_required_joins
MaxJoinList == 3

\* columns a semantic_column_search returns to _map_concept_to_column
MaxResults == 2

\* calls of suggest_query_structure compared on the same inputs
MaxRuns == 2

\* characters of a table name drawn from NameAlphabet
MaxNameLen == 3

\* responses one turn yields
MaxOutputs == 3

\* turns on one connection
MaxTurns == 2

\* records of an imported document
MaxDoc == 2

\* turns the session has been through before
MaxEarlier == 50

\* assistant messages one turn saves
MaxReplies == 2

Min(a, b) == IF a < b THEN a ELSE b

----------------------------------------------------------------------------
(* Values of the turn state *)

\* sql_corrector_node: max_retries = 3
max_retries == 3

None == "None"

\* literal rules of supervisor_node, as features of the utterance
Keywords == {"load", "stop", "chart_result", "chart"}

\* an utterance: the keyword rules it triggers, and whether its text is empty
\* ("chart_result" contains "chart", so the marker never comes without it)
Utterances ==
    {[kw |-> K, empty |-> FALSE] :
        K \in {S \in SUBSET Keywords : "chart_result" \in S => "chart" \in S}}
        \cup {[kw |-> {}, empty |-> TRUE]}

\* worker labels the classifier's answer may contain
Labels == {"sql", "loader", "analyst", "chart"}

\* statements: "" (none), the sentinel of _extract_sql, and real statements
EmptySQL == ""
Sentinel == "SELECT 'ERROR: No valid SQL generated' AS error"
Queries == {"q1", "q2"}
\* text that is not SQL, kept as the statement
Junk == "not sql"
Statements == {EmptySQL, Sentinel, Junk} \cup Queries

\* `"ERROR" in sql_query`
ContainsERROR(sql) == sql = Sentinel

\* error texts, by the patterns of correct_sql they match
ErrorTexts == {"err_plain", "err_table", "err_column", "err_both"}

\* correct_sql: re.search(r'Table.*"(\w+)".*not found|Table with name ...')
TableErrorMatches(e) == e \in {"err_table", "err_both"}

\* correct_sql: re.search(r'column "(\w+)" not found|Referenced column ...')
ColumnErrorMatches(e) == e \in {"err_column", "err_both"}

\* truthiness of pending_chart_request: None and "" are falsy
Truthy(p) == p \in {"utterance", "ai_text"}

Terminal == {"END", "ABORT"}

----------------------------------------------------------------------------
(* Conditional edges of _setup_graph *)

\* mutant: the FINISH edge of the supervisor leads to the interpreter
route_supervisor_finish_to_analyst(ns) ==
    CASE ns = "csv_loader"      -> "csv_loader"
      [] ns = "sql_planner"     -> "schema_analyzer"
      [] ns = "data_analyst"    -> "data_analyst"
      [] ns = "chart_generator" -> "chart_generator"
      [] ns = "FINISH"          -> "data_analyst"

\* add_conditional_edges("supervisor", lambda x: x["next_step"], {...})
route_supervisor(ns) ==
    CASE ns = "csv_loader"      -> "csv_loader"
      [] ns = "sql_planner"     -> "schema_analyzer"
      [] ns = "data_analyst"    -> "data_analyst"
      [] ns = "chart_generator" -> "chart_generator"
      [] ns = "FINISH"          -> "END"

\* lambda x: "sql_executor" if x.get("next_step") == "execute" else "sql_corrector"
route_validator(ns) == IF ns = "execute" THEN "sql_executor" ELSE "sql_corrector"

\* mutant: the corrector's edge always leads back to the validator
route_corrector_always_validator(ns) == "sql_validator"

\* lambda x: x.get("next_step", "data_analyst")
route_corrector(ns) ==
    CASE ns = "sql_validator" -> "sql_validator"
      [] ns = "data_analyst"  -> "data_analyst"

\* lambda x: x.get("next_step") if x.get("next_step") == "sql_corrector" else "data_analyst"
route_executor(ns) == IF ns = "sql_corrector" THEN "sql_corrector" ELSE "data_analyst"

\* lambda x: "chart_generator" if x.get("pending_chart_request") else "supervisor"
route_data_analyst(p) == IF Truthy(p) THEN "chart_generator" ELSE "supervisor"

\* lambda x: x.get("next_step", "supervisor")
route_chart_generator(ns) ==
    CASE ns = "sql_planner"     -> "sql_planner"
      [] ns = "supervisor"      -> "supervisor"
      [] ns = "chart_generator" -> "supervisor"

----------------------------------------------------------------------------
(* supervisor_node *)

\* mutant: an answer without any label is sent to planning
classify_unclear_to_planner(decision) ==
    IF "sql" \in decision \/ decision = {} THEN "sql_planner"
    ELSE IF "loader" \in decision THEN "csv_loader"
    ELSE IF "analyst" \in decision THEN "data_analyst"
    ELSE "chart_generator"

\* "Fallback if LLM is chatty": the first label found in the answer decides
classify(decision) ==
    IF "sql" \in decision THEN "sql_planner"
    ELSE IF "loader" \in decision THEN "csv_loader"
    ELSE IF "analyst" \in decision THEN "data_analyst"
    ELSE IF "chart" \in decision THEN "chart_generator"
    ELSE "data_analyst"

\* mutant: the chart rule is tried before the others
keyword_rule_chart_first(u) ==
    IF "chart" \in u.kw THEN "chart_generator"
    ELSE IF "load" \in u.kw THEN "csv_loader"
    ELSE IF "stop" \in u.kw THEN "FINISH"
    ELSE ""

\* generate_response calls a supervisor step made, by the return it took:
\* the keyword returns and the non-Human return come before the call
classifier_calls(out) ==
    IF out \in {"classified", "unclear", "routing_error"} THEN 1 ELSE 0

\* the keyword rules, in the order of the code; "" when none fires
keyword_rule(u) ==
    IF "load" \in u.kw THEN "csv_loader"
    ELSE IF "stop" \in u.kw THEN "FINISH"
    ELSE IF "chart_result" \in u.kw THEN "FINISH"
    ELSE IF "chart" \in u.kw THEN "chart_generator"
    ELSE ""

\* mutant: the router also appends a message of its own
supervisor_node_appends ==
    /\ node = "supervisor"
    /\ \E decision \in SUBSET Labels, raises \in BOOLEAN :
         LET rule == keyword_rule(utter)
             ns == IF lastMsg # "human" THEN "FINISH"
                   ELSE IF rule # "" THEN rule
                   ELSE IF raises THEN "data_analyst"
                   ELSE classify(decision)
         IN /\ next_step' = ns
            /\ node' = route_supervisor(ns)
            /\ outcome' = IF lastMsg # "human" THEN "not_human"
                          ELSE IF rule # "" THEN "rule"
                          ELSE IF raises THEN "routing_error"
                          ELSE IF decision = {} THEN "unclear"
                          ELSE "classified"
    /\ prev' = "supervisor"
    /\ UNCHANGED <<raw_output, suggested_joins, query_structure, join_hint>>
    /\ lastMsg' = "supervisor"
    /\ UNCHANGED <<mode, utter, hasData, sql_query, sql_error,
                   sql_retry_count, pending_chart_request, resolved_concepts,
                   validated, executed, loopAttempts, turnAttempts, exhausted>>

supervisor_node ==
    /\ node = "supervisor"
    /\ \E decision \in SUBSET Labels, raises \in BOOLEAN :
         LET rule == keyword_rule(utter)
             ns == IF lastMsg # "human" THEN "FINISH"
                   ELSE IF rule # "" THEN rule
                   ELSE IF raises THEN "data_analyst"
                   ELSE classify(decision)
         IN /\ next_step' = ns
            /\ node' = route_supervisor(ns)
            /\ outcome' = IF lastMsg # "human" THEN "not_human"
                          ELSE IF rule # "" THEN "rule"
                          ELSE IF raises THEN "routing_error"
                          ELSE IF decision = {} THEN "unclear"
                          ELSE "classified"
    /\ prev' = "supervisor"
    /\ UNCHANGED <<raw_output, suggested_joins, query_structure, join_hint>>
    /\ UNCHANGED <<mode, utter, lastMsg, hasData, sql_query, sql_error,
                   sql_retry_count, pending_chart_request, resolved_concepts,
                   validated, executed, loopAttempts, turnAttempts, exhausted>>

(* csv_loader_node *)
csv_loader_node ==
    /\ node = "csv_loader"
    /\ lastMsg' = "csv_loader"
    /\ node' = "supervisor"
    /\ prev' = "csv_loader"
    /\ UNCHANGED <<raw_output, suggested_joins, query_structure, join_hint>>
    /\ outcome' = "message"
    /\ UNCHANGED <<mode, utter, hasData, next_step, sql_query, sql_error,
                   sql_retry_count, pending_chart_request, resolved_concepts,
                   validated, executed, loopAttempts, turnAttempts, exhausted>>

(* schema_analyzer_node; the edge after it always leads to sql_planner *)
\* the join lists suggest_query_structure can return
RequiredJoinLists == {<<>>, <<"JOIN IA_Commandes ON IA_Factures.ID = IA_Commandes.ID">>}

\* a dict is written as the set of its items; `state.get("query_structure")
\* or {}` gives the empty one for a state without a structure
EmptyDict == {}

\* the dict suggest_query_structure returns for mappings
suggested(joins) ==
    {<<"primary_table", <<"IA_Factures">>>>, <<"mappings", <<"amount">>>>,
     <<"aggregations", <<"SUM">>>>, <<"group_by", <<>>>>,
     <<"suggested_tables", <<"IA_Factures", "IA_Commandes">>>>,
     <<"required_joins", joins>>}

\* the keys the analyzer copies into the query_structure of the state
kept_keys == {"primary_table", "suggested_tables", "aggregations", "group_by"}

kept_structure(structure) == {item \in structure : item[1] \in kept_keys}

\* query_structure.get('required_joins'), nothing for a missing key
joins_in(structure) ==
    IF \E item \in structure : item[1] = "required_joins"
    THEN (CHOOSE item \in structure : item[1] = "required_joins")[2]
    ELSE <<>>

schema_analyzer_node ==
    /\ node = "schema_analyzer"
    /\ \E res \in {"error", "mappings", "raises"} :
         LET noQuery == ~Truthy(pending_chart_request) /\ utter.empty
         IN IF noQuery
            THEN /\ lastMsg' = "analyzer_noquery"
                 /\ outcome' = "no_query"
                 /\ UNCHANGED <<resolved_concepts, suggested_joins, query_structure>>
            ELSE /\ lastMsg' = "analyzer_" \o res
                 /\ outcome' = res
                 /\ resolved_concepts' = IF res = "mappings" THEN "mapped" ELSE None
                 /\ IF res = "mappings"
                    THEN \E joins \in RequiredJoinLists :
                           /\ suggested_joins' = joins
                           /\ query_structure' = kept_structure(suggested(joins))
                    ELSE /\ query_structure' = EmptyDict
                         /\ UNCHANGED suggested_joins
    /\ node' = "sql_planner"
    /\ prev' = "schema_analyzer"
    /\ UNCHANGED <<raw_output, join_hint>>
    /\ UNCHANGED <<mode, utter, hasData, next_step, sql_query, sql_error,
                   sql_retry_count, pending_chart_request,
                   validated, executed, loopAttempts, turnAttempts, exhausted>>

\* a node whose collaborator call raises outside any try block: the exception
\* leaves the graph runner and ends the turn
raise_out_of(n) ==
    /\ node' = "ABORT"
    /\ prev' = n
    /\ UNCHANGED <<raw_output, suggested_joins, query_structure, join_hint>>
    /\ outcome' = "raised"
    /\ UNCHANGED <<mode, utter, lastMsg, hasData, next_step, sql_query, sql_error,
                   sql_retry_count, pending_chart_request, resolved_concepts,
                   validated, executed, loopAttempts, turnAttempts, exhausted>>

(* sql_planner_node; the edge after it always leads to sql_validator.       *)
(* get_all_schemas and get_formatted_relationships run before the try.      *)
\* an answer of the generation call, by what _extract_sql looks at: a
\* non-SQL indicator (import, def, pandas, ...) anywhere in it, a ``` code
\* block, and the text (of the block when there is one): a statement, prose
\* holding the word SELECT or WITH, prose without them, or nothing
OutputBodies == {"sql", "select_prose", "prose", "empty"}
RawOutputs == [indicator : BOOLEAN, fenced : BOOLEAN, body : OutputBodies]
NoOutput == [indicator |-> FALSE, fenced |-> FALSE, body |-> "none"]

\* the answer holds no SQL statement
non_sql(raw) == raw.indicator \/ raw.body # "sql"

\* _extract_sql: the indicator test, then the code block, else the text from
\* the first SELECT or WITH, else the sentinel; q is the statement read
extract_sql(raw, q) ==
    IF raw.indicator THEN Sentinel
    ELSE IF raw.fenced
         THEN CASE raw.body = "sql"          -> q
                [] raw.body = "select_prose" -> Junk
                [] raw.body = "prose"        -> Junk
                [] raw.body = "empty"        -> EmptySQL
         ELSE CASE raw.body = "sql"          -> q
                [] raw.body = "select_prose" -> Junk
                [] raw.body = "prose"        -> Sentinel
                [] raw.body = "empty"        -> Sentinel

PlannerOutputs == {extract_sql(raw, q) : raw \in RawOutputs, q \in Queries}

sql_planner_node ==
    /\ node = "sql_planner"
    /\ \/ \E raw \in RawOutputs, q \in Queries :
            /\ raw_output' = raw
            /\ sql_query' = extract_sql(raw, q)
            /\ sql_error' = None
            /\ lastMsg' = "planning"
            /\ outcome' = "planned"
       \/ /\ sql_query' = EmptySQL
          /\ sql_error' = "err_plain"
          /\ lastMsg' = "planner_error"
          /\ outcome' = "generation_raised"
          /\ UNCHANGED raw_output
    /\ join_hint' = joins_in(query_structure)
    /\ node' = "sql_validator"
    /\ prev' = "sql_planner"
    /\ loopAttempts' = 0
    /\ UNCHANGED <<suggested_joins, query_structure>>
    /\ UNCHANGED <<mode, utter, hasData, next_step, sql_retry_count,
                   pending_chart_request, resolved_concepts, validated, executed,
                   turnAttempts, exhausted>>

sql_planner_raises ==
    /\ node = "sql_planner"
    /\ raise_out_of("sql_planner")

(* sql_validator_node *)
\* `if not sql_query or "ERROR" in sql_query`
no_valid_sql(sql) == sql = EmptySQL \/ ContainsERROR(sql)

\* validate_sql: what the table check and EXPLAIN can answer for a statement;
\* the store's parser rejects text that is not SQL
explain_results(sql) ==
    IF sql \in Queries THEN {"valid"} \cup ErrorTexts ELSE ErrorTexts

\* mutant: the validator sends every statement to execution
validator_next_step_always_execute(is_valid) == "execute"

\* next_step the validator stores for a validation result
validator_next_step(is_valid) == IF is_valid THEN "execute" ELSE "sql_corrector"

sql_validator_node ==
    /\ node = "sql_validator"
    /\ IF no_valid_sql(sql_query)
       THEN /\ lastMsg' = "validator_nosql"
            /\ next_step' = "sql_corrector"
            /\ outcome' = "no_sql"
            /\ validated' = None
            /\ UNCHANGED sql_error
       ELSE \E v \in explain_results(sql_query) :
            /\ next_step' = validator_next_step(v = "valid")
            /\ IF v = "valid"
               THEN /\ lastMsg' = "validator_ok"
                    /\ outcome' = "valid"
                    /\ validated' = sql_query
                    /\ UNCHANGED sql_error
               ELSE /\ lastMsg' = "validator_invalid"
                    /\ outcome' = "invalid"
                    /\ validated' = None
                    /\ sql_error' = v
    /\ node' = route_validator(next_step')
    /\ prev' = "sql_validator"
    /\ UNCHANGED <<raw_output, suggested_joins, query_structure, join_hint>>
    /\ UNCHANGED <<mode, utter, hasData, sql_query, sql_retry_count,
                   pending_chart_request, resolved_concepts, executed,
                   loopAttempts, turnAttempts, exhausted>>

\* validate_sql reads the store and the semantic index outside any try
sql_validator_raises ==
    /\ node = "sql_validator"
    /\ ~no_valid_sql(sql_query)
    /\ raise_out_of("sql_validator")

(* sql_corrector_node *)
\* mutant: the budget test is off by one
retries_exhausted_off_by_one(rc) == rc > max_retries

\* `if retry_count >= max_retries`
retries_exhausted(rc) == rc >= max_retries

\* mutant: an attempt counts twice
attempt_count_twice(rc) == rc + 2

\* sql_retry_count stored by a correction attempt
attempt_count(rc) == rc + 1

\* sql_retry_count stored when the corrector gives up on the budget
giveup_count(rc) == 0

\* `if not sql_error`
no_error(e) == e = None

\* the message templates of the corrector that interpolate {sql_error}:
\* "Unable to fix query after 3 attempts. Error: ..." and
\* "Unable to auto-correct. Error: ..."
carries_error(kind) == kind \in {"corrector_max_retries", "corrector_unable"}

\* correct_sql: `changes` is non-empty when a pattern matched the error text
\* and the lookup for the bad name returned a replacement
has_changes(e, similarFound, searchHit) ==
    \/ TableErrorMatches(e) /\ similarFound
    \/ ColumnErrorMatches(e) /\ searchHit

\* correct_sql: the statement after the substitutions (re.sub may leave a
\* statement as it was; on "" it returns "")
correct_sql(sql, changed, q2) ==
    IF changed /\ sql \in Queries THEN q2 ELSE sql

sql_corrector_node ==
    /\ node = "sql_corrector"
    /\ IF retries_exhausted(sql_retry_count)
       THEN /\ lastMsg' = "corrector_max_retries"
            /\ next_step' = "data_analyst"
            /\ sql_retry_count' = giveup_count(sql_retry_count)
            /\ outcome' = "max_retries"
            /\ exhausted' = TRUE
            /\ UNCHANGED <<sql_query, sql_error, loopAttempts, turnAttempts>>
       ELSE /\ loopAttempts' = Min(loopAttempts + 1, MaxCounted)
            /\ turnAttempts' = Min(turnAttempts + 1, MaxCounted)
            /\ sql_retry_count' = attempt_count(sql_retry_count)
            /\ UNCHANGED exhausted
            /\ IF no_error(sql_error)
               THEN /\ lastMsg' = "corrector_no_error"
                    /\ next_step' = "sql_validator"
                    /\ outcome' = "no_error"
                    /\ UNCHANGED <<sql_query, sql_error>>
               ELSE \E similarFound \in BOOLEAN, searchHit \in BOOLEAN,
                       q2 \in Queries :
                    LET changed == has_changes(sql_error, similarFound, searchHit)
                    IN IF changed
                       THEN /\ lastMsg' = "corrector_changes"
                            /\ sql_query' = correct_sql(sql_query, changed, q2)
                            /\ sql_error' = None
                            /\ next_step' = "sql_validator"
                            /\ outcome' = "fixed"
                       ELSE /\ lastMsg' = "corrector_unable"
                            /\ next_step' = "data_analyst"
                            /\ outcome' = "unable"
                            /\ UNCHANGED <<sql_query, sql_error>>
    /\ node' = route_corrector(next_step')
    /\ prev' = "sql_corrector"
    /\ UNCHANGED <<raw_output, suggested_joins, query_structure, join_hint>>
    /\ UNCHANGED <<mode, utter, hasData, pending_chart_request,
                   resolved_concepts, validated, executed>>

\* correct_sql reads the store and the semantic index outside any try
sql_corrector_raises ==
    /\ node = "sql_corrector"
    /\ ~retries_exhausted(sql_retry_count)
    /\ ~no_error(sql_error)
    /\ raise_out_of("sql_corrector")

(* sql_executor_node *)
\* next_step the executor stores
executor_next_step(succeeded) == IF succeeded THEN "data_analyst" ELSE "sql_corrector"

\* sql_error the executor stores when execute_query raised with text e
executor_error(e) == e

sql_executor_node ==
    /\ node = "sql_executor"
    /\ IF no_valid_sql(sql_query)
       THEN /\ lastMsg' = "executor_nosql"
            /\ sql_error' = "err_plain"
            /\ next_step' = "sql_corrector"
            /\ outcome' = "no_sql"
            /\ executed' = None
            /\ UNCHANGED <<hasData, sql_retry_count>>
       ELSE \E r \in {"rows"} \cup ErrorTexts :
            /\ executed' = sql_query
            /\ next_step' = executor_next_step(r = "rows")
            /\ IF r = "rows"
               THEN /\ lastMsg' = "data_result"
                    /\ hasData' = TRUE
                    /\ sql_error' = None
                    /\ sql_retry_count' = 0
                    /\ outcome' = "success"
               ELSE /\ lastMsg' = "execution_error"
                    /\ sql_error' = executor_error(r)
                    /\ outcome' = "store_error"
                    /\ UNCHANGED <<hasData, sql_retry_count>>
    /\ node' = route_executor(next_step')
    /\ prev' = "sql_executor"
    /\ UNCHANGED <<raw_output, suggested_joins, query_structure, join_hint>>
    /\ UNCHANGED <<mode, utter, sql_query, pending_chart_request,
                   resolved_concepts, validated, loopAttempts, turnAttempts,
                   exhausted>>

(* data_analyst_node *)
data_analyst_node ==
    /\ node = "data_analyst"
    /\ IF mode = "sql"
       THEN /\ outcome' = "sql_mode"
            /\ UNCHANGED lastMsg
       ELSE IF Truthy(pending_chart_request)
       THEN /\ outcome' = "pending_chart"
            /\ UNCHANGED lastMsg
       ELSE /\ outcome' = "analysis"
            /\ lastMsg' = "analysis"
    /\ node' = route_data_analyst(pending_chart_request)
    /\ prev' = "data_analyst"
    /\ UNCHANGED <<raw_output, suggested_joins, query_structure, join_hint>>
    /\ UNCHANGED <<mode, utter, hasData, next_step, sql_query, sql_error,
                   sql_retry_count, pending_chart_request, resolved_concepts,
                   validated, executed, loopAttempts, turnAttempts, exhausted>>

\* get_all_schemas and generate_response run outside any try
data_analyst_raises ==
    /\ node = "data_analyst"
    /\ mode # "sql"
    /\ ~Truthy(pending_chart_request)
    /\ raise_out_of("data_analyst")

(* chart_generator_node *)
\* messages[-1].content, as a value of pending_chart_request
last_content(last, u) ==
    IF last = "human" THEN (IF u.empty THEN "empty" ELSE "utterance")
    ELSE "ai_text"

\* `if not last_data`: _find_last_data_result found no data_result
no_data(found) == ~found

chart_generator_node ==
    /\ node = "chart_generator"
    /\ IF no_data(hasData)
       THEN /\ lastMsg' = "chart_no_data"
            /\ pending_chart_request' = last_content(lastMsg, utter)
            /\ next_step' = "sql_planner"
            /\ outcome' = "fetch_first"
       ELSE \E generic \in BOOLEAN, generated \in BOOLEAN :
            /\ next_step' = "supervisor"
            /\ lastMsg' = IF generic THEN "chart_suggestions"
                          ELSE IF generated THEN "chart_result"
                          ELSE "chart_error"
            /\ pending_chart_request' =
                   IF generated THEN None ELSE pending_chart_request
            /\ outcome' = IF generated THEN "chart" ELSE "chart_failed"
    /\ node' = route_chart_generator(next_step')
    /\ prev' = "chart_generator"
    /\ UNCHANGED <<raw_output, suggested_joins, query_structure, join_hint>>
    /\ UNCHANGED <<mode, utter, hasData, sql_query, sql_error, sql_retry_count,
                   resolved_concepts, validated, executed, loopAttempts,
                   turnAttempts, exhausted>>

----------------------------------------------------------------------------
(* One turn: process_message seeds {"messages", "mode"}; every other key of *)
(* the state is absent and reads as its default                            *)

TurnInit ==
    /\ node = "supervisor"
    /\ prev = "start"
    /\ outcome = "start"
    /\ mode \in {"chat", "sql"}
    /\ utter \in Utterances
    /\ lastMsg \in {"human", "history_ai"}
    /\ hasData \in BOOLEAN
    /\ next_step = "unset"
    /\ sql_query = EmptySQL
    /\ sql_error = None
    /\ sql_retry_count = 0
    /\ pending_chart_request = None
    /\ resolved_concepts = None
    /\ validated = None
    /\ executed = None
    /\ loopAttempts = 0
    /\ turnAttempts = 0
    /\ exhausted = FALSE
    /\ raw_output = NoOutput
    /\ suggested_joins = <<>>
    /\ query_structure = EmptyDict
    /\ join_hint = <<>>

----------------------------------------------------------------------------
(* DuckDBService: schema cache (duckdb_service.py)                          *)

\* SCHEMA_CACHE_TTL = 60
SCHEMA_CACHE_TTL == 60

Threads == {"t1", "t2"}
Tables == {"a"}
Versions == {"v1", "v2"}

\* a schema listing: for every table its column list (a version), or "absent"
Listings == [Tables -> Versions \cup {"absent"}]
NoTables == [tb \in Tables |-> "absent"]

\* the clock starts well past one TTL (time.time() is seconds since 1970)
StartTime == 2 * SCHEMA_CACHE_TTL
TickSteps == {1, SCHEMA_CACHE_TTL - 1}

IdleThread == [pc |-> "idle", listed |-> {}, built |-> NoTables]

\* mutant: an entry is still served at the age of exactly one TTL
is_cache_valid_inclusive(t_now, t_cache) == (t_now - t_cache) <= SCHEMA_CACHE_TTL

\* _is_cache_valid: (time.time() - self._schema_cache_time) < SCHEMA_CACHE_TTL
is_cache_valid(t_now, t_cache) == (t_now - t_cache) < SCHEMA_CACHE_TTL

\* get_all_schemas: `if self._is_cache_valid() and cache_key in self._schema_cache`
cache_hit(use_cache, t_now, t_cache, cache) ==
    use_cache /\ is_cache_valid(t_now, t_cache) /\ Len(cache) > 0

\* get_all_schemas, first block (under _cache_lock): look the entry up
gas_check(t) ==
    /\ cth[t].pc = "idle"
    /\ LET hit == cache_hit(TRUE, now, schema_cache_time, schema_cache)
           fresh == stored /\ (now - storedAt) < SCHEMA_CACHE_TTL
       IN /\ lastCheck' = [checked |-> TRUE,
                           hit |-> hit,
                           fresh |-> fresh,
                           age |-> now - storedAt,
                           afterMutation |-> mutatedSince,
                           consecutive |-> quiet,
                           same |-> hit /\ schema_cache[1] = lastReturned]
          /\ IF hit
             THEN /\ lastReturned' = schema_cache[1]
                  /\ quiet' = TRUE
                  /\ UNCHANGED cth
             ELSE /\ cth' = [cth EXCEPT ![t].pc = "gas_list"]
                  /\ UNCHANGED <<lastReturned, quiet>>
    /\ mutatedSince' = FALSE
    /\ UNCHANGED <<now, ticks, db, schema_cache, schema_cache_time, storedAt, stored>>
    /\ UNCHANGED <<loadedSince, readersBefore>>

\* get_all_schemas: tables = self.get_tables()
gas_list(t) ==
    /\ cth[t].pc = "gas_list"
    /\ cth' = [cth EXCEPT ![t].pc = "gas_describe",
                          ![t].listed = {tb \in Tables : db[tb] # "absent"}]
    /\ UNCHANGED <<now, ticks, db, schema_cache, schema_cache_time, storedAt,
                   stored, mutatedSince, quiet, lastReturned, lastCheck,
                   loadedSince, readersBefore>>

\* get_all_schemas: the loop over the listed tables; a table dropped since
\* the listing makes get_schema raise and is skipped
gas_describe(t) ==
    /\ cth[t].pc = "gas_describe"
    /\ cth' = [cth EXCEPT ![t].pc = "gas_store",
                          ![t].built = [tb \in Tables |->
                               IF tb \in cth[t].listed THEN db[tb] ELSE "absent"]]
    /\ UNCHANGED <<now, ticks, db, schema_cache, schema_cache_time, storedAt,
                   stored, mutatedSince, quiet, lastReturned, lastCheck,
                   loadedSince, readersBefore>>

\* get_all_schemas: self._schema_cache_time = time.time()
stored_time(t_now, t_cache) == t_now

\* get_all_schemas, last block (under _cache_lock): store the entry, return it
gas_store(t) ==
    /\ cth[t].pc = "gas_store"
    /\ schema_cache' = <<cth[t].built>>
    /\ schema_cache_time' = stored_time(now, schema_cache_time)
    /\ storedAt' = now
    /\ stored' = TRUE
    /\ lastReturned' = cth[t].built
    /\ quiet' = TRUE
    /\ cth' = [cth EXCEPT ![t] = IdleThread]
    /\ readersBefore' = readersBefore \ {t}
    /\ UNCHANGED <<now, ticks, db, mutatedSince, lastCheck, loadedSince>>

\* load_csv: CREATE OR REPLACE TABLE ... (under _conn_lock)
load_csv_execute(t) ==
    /\ cth[t].pc = "idle"
    /\ \E tb \in Tables, v \in Versions :
         db' = [db EXCEPT ![tb] = v]
    /\ cth' = [cth EXCEPT ![t].pc = "load_invalidate"]
    /\ quiet' = FALSE
    /\ UNCHANGED <<now, ticks, schema_cache, schema_cache_time, storedAt, stored,
                   mutatedSince, lastReturned, lastCheck>>
    /\ loadedSince' = FALSE
    /\ readersBefore' = {}

\* load_csv: self._invalidate_schema_cache(), then return
load_csv_invalidate(t) ==
    /\ cth[t].pc = "load_invalidate"
    /\ schema_cache' = <<>>
    /\ schema_cache_time' = 0
    /\ stored' = FALSE
    /\ mutatedSince' = TRUE
    /\ quiet' = FALSE
    /\ cth' = [cth EXCEPT ![t] = IdleThread]
    /\ loadedSince' = TRUE
    /\ readersBefore' = {u \in Threads \ {t} : cth[u].pc # "idle"}
    /\ UNCHANGED <<now, ticks, db, storedAt, lastReturned, lastCheck>>

\* delete_table: DROP TABLE IF EXISTS ... (under _conn_lock), then return;
\* the cache is not touched
delete_table(t) ==
    /\ cth[t].pc = "idle"
    /\ \E tb \in Tables :
         /\ db[tb] # "absent"
         /\ db' = [db EXCEPT ![tb] = "absent"]
    /\ mutatedSince' = TRUE
    /\ quiet' = FALSE
    /\ UNCHANGED <<now, ticks, schema_cache, schema_cache_time, cth, storedAt,
                   stored, lastReturned, lastCheck>>
    /\ loadedSince' = FALSE
    /\ readersBefore' = {}

\* the clock advances
Tick ==
    /\ ticks < MaxTicks
    /\ \E d \in TickSteps : now' = now + d
    /\ ticks' = ticks + 1
    /\ UNCHANGED <<db, schema_cache, schema_cache_time, cth, storedAt, stored,
                   mutatedSince, quiet, lastReturned, lastCheck,
                   loadedSince, readersBefore>>

NoCheck == [checked |-> FALSE, hit |-> FALSE, fresh |-> FALSE, age |-> 0,
            afterMutation |-> FALSE, consecutive |-> FALSE, same |-> FALSE]

\* DuckDBService.__init__: an empty cache with time 0
CacheInit ==
    /\ now = StartTime
    /\ ticks = 0
    /\ db \in Listings
    /\ schema_cache = <<>>
    /\ schema_cache_time = 0
    /\ cth = [t \in Threads |-> IdleThread]
    /\ storedAt = 0
    /\ stored = FALSE
    /\ mutatedSince = FALSE
    /\ quiet = FALSE
    /\ lastReturned = NoTables
    /\ lastCheck = NoCheck
    /\ loadedSince = FALSE
    /\ readersBefore = {}

CacheIdle ==
    /\ now = StartTime
    /\ ticks = 0
    /\ db = NoTables
    /\ schema_cache = <<>>
    /\ schema_cache_time = 0
    /\ cth = [t \in Threads |-> IdleThread]
    /\ storedAt = 0
    /\ stored = FALSE
    /\ mutatedSince = FALSE
    /\ quiet = FALSE
    /\ lastReturned = NoTables
    /\ lastCheck = NoCheck
    /\ loadedSince = FALSE
    /\ readersBefore = {}

TurnIdle ==
    /\ node = "END"
    /\ prev = "start"
    /\ outcome = "start"
    /\ mode = "chat"
    /\ utter = [kw |-> {}, empty |-> TRUE]
    /\ lastMsg = "human"
    /\ hasData = FALSE
    /\ next_step = "unset"
    /\ sql_query = EmptySQL
    /\ sql_error = None
    /\ sql_retry_count = 0
    /\ pending_chart_request = None
    /\ resolved_concepts = None
    /\ validated = None
    /\ executed = None
    /\ loopAttempts = 0
    /\ turnAttempts = 0
    /\ exhausted = FALSE
    /\ raw_output = NoOutput
    /\ suggested_joins = <<>>
    /\ query_structure = EmptyDict
    /\ join_hint = <<>>

----------------------------------------------------------------------------
(* DuckDBService._conn_lock: who uses the shared connection                 *)

\* every operation as the sequence of lock operations and connection calls
\* it makes: "acquire"/"release" are `with self._conn_lock`, "call" is one
\* call on self.conn
Locked == <<"acquire", "call", "release">>

\* `with self._cache_lock`: the cache is read or written, no call is made
CacheLocked == <<"cache_acquire", "cache_release">>

Program(op) ==
    CASE op = "execute_query"     -> Locked
      [] op = "validate_query"    -> Locked
      [] op = "get_tables"        -> Locked
      [] op = "get_schema"        -> Locked
         \* conn.execute under _conn_lock, then _invalidate_schema_cache
      [] op = "load_csv"          -> Locked \o CacheLocked
      [] op = "delete_table"      -> Locked
      [] op = "get_row_count"     -> Locked
         \* with self._conn_lock: get_schema(...); self.conn.execute(...)
      [] op = "get_table_content" -> <<"acquire">> \o Locked \o <<"call", "release">>
         \* the cache answers: the return inside `with self._cache_lock`
      [] op = "get_all_schemas_cached" -> CacheLocked
         \* the lookup misses: get_tables, get_schema of a table, the store
      [] op = "get_all_schemas"   -> CacheLocked \o Locked \o Locked \o CacheLocked
         \* get_full_schema (get_tables, get_schema), then
         \* self.duckdb.conn.sql(f"EXPLAIN {sql}") outside the lock
      [] op = "validate_sql"      -> Locked \o Locked \o <<"call">>
         \* get_schema, then conn.execute(COUNT) and conn.execute(sample)
         \* outside the lock
      [] op = "index_table"       -> Locked \o <<"call", "call">>

Operations == {"execute_query", "validate_query", "get_tables", "get_schema",
               "load_csv", "delete_table", "get_row_count", "get_table_content",
               "get_all_schemas", "get_all_schemas_cached",
               "validate_sql", "index_table"}

IdleConnThread == [op |-> "idle", ip |-> 0, inCall |-> FALSE]

Instr(t) ==
    IF cn[t].op = "idle" \/ cn[t].ip > Len(Program(cn[t].op)) THEN "end"
    ELSE Program(cn[t].op)[cn[t].ip]

\* a request thread, a graph node or a background task enters an operation
conn_start(t) ==
    /\ cn[t].op = "idle"
    /\ \E op \in Operations : cn' = [cn EXCEPT ![t] = [op |-> op, ip |-> 1, inCall |-> FALSE]]
    /\ UNCHANGED <<lockOwner, lockCount, cacheLockOwner, cacheLockCount>>

\* mutant: _conn_lock is a plain Lock
conn_acquire_not_reentrant(t) ==
    /\ Instr(t) = "acquire"
    /\ lockOwner = "none"
    /\ lockOwner' = t
    /\ lockCount' = lockCount + 1
    /\ cn' = [cn EXCEPT ![t].ip = @ + 1]
    /\ UNCHANGED <<cacheLockOwner, cacheLockCount>>

\* RLock.acquire: free, or already held by this thread
conn_acquire(t) ==
    /\ Instr(t) = "acquire"
    /\ lockOwner \in {"none", t}
    /\ lockOwner' = t
    /\ lockCount' = lockCount + 1
    /\ cn' = [cn EXCEPT ![t].ip = @ + 1]
    /\ UNCHANGED <<cacheLockOwner, cacheLockCount>>

\* the thread enters conn.sql / conn.execute
conn_call_begin(t) ==
    /\ Instr(t) = "call"
    /\ ~cn[t].inCall
    /\ cn' = [cn EXCEPT ![t].inCall = TRUE]
    /\ UNCHANGED <<lockOwner, lockCount, cacheLockOwner, cacheLockCount>>

\* the call returns (or raises)
conn_call_end(t) ==
    /\ cn[t].inCall
    /\ cn' = [cn EXCEPT ![t].inCall = FALSE, ![t].ip = @ + 1]
    /\ UNCHANGED <<lockOwner, lockCount, cacheLockOwner, cacheLockCount>>

\* RLock.release
conn_release(t) ==
    /\ Instr(t) = "release"
    /\ lockCount' = lockCount - 1
    /\ lockOwner' = IF lockCount = 1 THEN "none" ELSE lockOwner
    /\ cn' = [cn EXCEPT ![t].ip = @ + 1]
    /\ UNCHANGED <<cacheLockOwner, cacheLockCount>>

\* `with self._cache_lock`: RLock.acquire
cache_acquire(t) ==
    /\ Instr(t) = "cache_acquire"
    /\ cacheLockOwner \in {"none", t}
    /\ cacheLockOwner' = t
    /\ cacheLockCount' = cacheLockCount + 1
    /\ cn' = [cn EXCEPT ![t].ip = @ + 1]
    /\ UNCHANGED <<lockOwner, lockCount>>

\* the end of `with self._cache_lock`, or the return inside it
cache_release(t) ==
    /\ Instr(t) = "cache_release"
    /\ cacheLockCount' = cacheLockCount - 1
    /\ cacheLockOwner' = IF cacheLockCount = 1 THEN "none" ELSE cacheLockOwner
    /\ cn' = [cn EXCEPT ![t].ip = @ + 1]
    /\ UNCHANGED <<lockOwner, lockCount>>

\* the operation returns
conn_finish(t) ==
    /\ cn[t].op # "idle"
    /\ Instr(t) = "end"
    /\ cn' = [cn EXCEPT ![t] = IdleConnThread]
    /\ UNCHANGED <<lockOwner, lockCount, cacheLockOwner, cacheLockCount>>

ConnInit ==
    /\ lockOwner = "none"
    /\ lockCount = 0
    /\ cacheLockOwner = "none"
    /\ cacheLockCount = 0
    /\ cn = [t \in Threads |-> IdleConnThread]

----------------------------------------------------------------------------
(* DuckDBService.execute_query                                              *)

\* DEFAULT_LIMIT = 1000
DEFAULT_LIMIT == 1000

\* a query is a sequence of tokens; the first one is what the text starts with
HeadTokens == {"SELECT", "select", "WITH", "with"}
BodyTokens == {"x", "credit_limit", "LIMIT", "limit"}

Bodies == UNION {[1..n -> BodyTokens] : n \in 0..MaxBody}
ExecQueries == {<<h>> \o b : h \in HeadTokens, b \in Bodies}

RowCounts == {0, DEFAULT_LIMIT - 1, DEFAULT_LIMIT, DEFAULT_LIMIT + 1,
              2 * DEFAULT_LIMIT}

\* str.upper()
Upper(tok) ==
    CASE tok = "select"       -> "SELECT"
      [] tok = "with"         -> "WITH"
      [] tok = "limit"        -> "LIMIT"
      [] tok = "x"            -> "X"
      [] tok = "credit_limit" -> "CREDIT_LIMIT"
      [] OTHER                -> tok

\* query_upper.startswith('SELECT')
starts_with_select(q) == Upper(q[1]) = "SELECT"

\* 'LIMIT' in query_upper: a substring test on the whole text
contains_limit(q) == \E i \in 1..Len(q) : Upper(q[i]) \in {"LIMIT", "CREDIT_LIMIT"}

\* the query carries a LIMIT clause of its own
has_limit_clause(q) == \E i \in 1..Len(q) : Upper(q[i]) = "LIMIT"

\* `if query_upper.startswith('SELECT') and 'LIMIT' not in query_upper`
wraps(q) == starts_with_select(q) /\ ~contains_limit(q)

\* query = f"SELECT * FROM ({query}) AS subq LIMIT {limit}"
wrapped(q) == <<"SELECT", "*", "FROM", "(">> \o q \o <<")", "AS", "subq", "LIMIT", "DEFAULT_LIMIT">>

\* rows the store returns for the statement it is given
rows_of(sent_wrapped, n, limit) == IF sent_wrapped THEN Min(n, limit) ELSE n

execute_query ==
    /\ ex_pc = "called"
    /\ ex_pc' = "returned"
    /\ ex_sent' = IF wraps(ex_query) THEN wrapped(ex_query) ELSE ex_query
    /\ ex_returned' = rows_of(wraps(ex_query), ex_rows, DEFAULT_LIMIT)
    /\ UNCHANGED <<ex_query, ex_rows>>

\* conn.sql raises: logged and re-raised
execute_query_raises ==
    /\ ex_pc = "called"
    /\ ex_pc' = "raised"
    /\ ex_sent' = IF wraps(ex_query) THEN wrapped(ex_query) ELSE ex_query
    /\ UNCHANGED <<ex_query, ex_rows, ex_returned>>

ExecInit ==
    /\ ex_pc = "called"
    /\ ex_query \in ExecQueries
    /\ ex_rows \in RowCounts
    /\ ex_sent = <<>>
    /\ ex_returned = 0

ConnIdle == ConnInit

ExecIdle ==
    /\ ex_pc = "returned"
    /\ ex_query = <<"SELECT">>
    /\ ex_rows = 0
    /\ ex_sent = <<>>
    /\ ex_returned = 0

----------------------------------------------------------------------------
(* SchemaToolsService.get_required_joins                                    *)

JoinTables == {"A", "B", "C"}

\* suggest_query_structure passes [primary_table] + the other tables of a
\* set: a list without repetition
TableLists ==
    {l \in UNION {[1..n -> JoinTables] : n \in 0..MaxJoinList} :
        \A a, b \in 1..Len(l) : a # b => l[a] # l[b]}

\* a relationship of the file, by its table_source and table_target
Relationships == {<<a, b>> : a, b \in JoinTables} \ {<<a, a>> : a \in JoinTables}

\* `key in rel_map`: rel_map holds every relationship under both orders
in_rel_map(a, b, rels) == <<a, b>> \in rels \/ <<b, a>> \in rels

\* the column a stored relationship names on the side of a table
key_column(t) ==
    CASE t = "A" -> "a_id"
      [] t = "B" -> "b_id"
      [] t = "C" -> "c_id"

\* the record of the relationships file for (source, target)
stored_rel(r) ==
    [table_source |-> r[1], column_source |-> key_column(r[1]),
     table_target |-> r[2], column_target |-> key_column(r[2])]

\* mutant: the reversed entry swaps the tables and keeps the columns in place
reversed_keeps_columns(rel) ==
    [table_source |-> rel.table_target, column_source |-> rel.column_source,
     table_target |-> rel.table_source, column_target |-> rel.column_target]

\* rel_map[key2]: the relationship read from target to source
reversed(rel) ==
    [table_source |-> rel.table_target, column_source |-> rel.column_target,
     table_target |-> rel.table_source, column_target |-> rel.column_source]

\* rel_map[(a, b)]: the relationship stored as (a, b), or the reversed one
\* stored as (b, a); when both are stored the later one of the file wins
rel_map(a, b, rels) ==
    {stored_rel(r) : r \in rels \cap {<<a, b>>}}
    \cup {reversed(stored_rel(r)) : r \in rels \cap {<<b, a>>}}

\* f"JOIN {target_table} ON {table_source}.{column_source} =
\* {table_target}.{column_target}"
join_clause(target, rel) ==
    [table |-> target,
     left_table |-> rel.table_source, left_column |-> rel.column_source,
     right_table |-> rel.table_target, right_column |-> rel.column_target]

\* mutant: the joined set is not extended
joined_after_forgets(joined, target) == joined

\* joined_tables.add(target_table)
joined_after(joined, target) == joined \cup {target}

\* `if len(tables) <= 1: return []`, else joined_tables = {tables[0]}
join_start ==
    /\ j_pc = "called"
    /\ IF Len(j_tables) <= 1
       THEN /\ j_pc' = "returned"
            /\ UNCHANGED <<j_i, j_joined>>
       ELSE /\ j_pc' = "loop"
            /\ j_i' = 2
            /\ j_joined' = {j_tables[1]}
    /\ j_joins' = <<>>
    /\ j_clauses' = <<>>
    /\ UNCHANGED <<j_tables, j_rels>>

\* one round of `for target_table in tables[1:]`; the inner loop takes the
\* first joined table, in the set's iteration order, that has a relationship
join_step ==
    /\ j_pc = "loop"
    /\ j_i <= Len(j_tables)
    /\ LET target == j_tables[j_i]
           found == {j \in j_joined : in_rel_map(j, target, j_rels)}
       IN IF target \in j_joined \/ found = {}
          THEN UNCHANGED <<j_joined, j_joins, j_clauses>>
          ELSE \E j \in found :
                 /\ j_joins' = Append(j_joins, [table |-> target, on |-> j])
                 /\ \E rel \in rel_map(j, target, j_rels) :
                        j_clauses' = Append(j_clauses, join_clause(target, rel))
                 /\ j_joined' = joined_after(j_joined, target)
    /\ j_i' = j_i + 1
    /\ UNCHANGED <<j_pc, j_tables, j_rels>>

\* `return joins`
join_return ==
    /\ j_pc = "loop"
    /\ j_i > Len(j_tables)
    /\ j_pc' = "returned"
    /\ UNCHANGED <<j_tables, j_rels, j_i, j_joined, j_joins, j_clauses>>

JoinInit ==
    /\ j_pc = "called"
    /\ j_tables \in TableLists
    /\ j_rels \in SUBSET Relationships
    /\ j_i = 0
    /\ j_joined = {}
    /\ j_joins = <<>>
    /\ j_clauses = <<>>

JoinIdle ==
    /\ j_pc = "returned"
    /\ j_tables = <<>>
    /\ j_rels = {}
    /\ j_i = 0
    /\ j_joined = {}
    /\ j_joins = <<>>
    /\ j_clauses = <<>>

----------------------------------------------------------------------------
(* SchemaToolsService._map_concept_to_column                                *)

MapConcepts == {"amount", "invoice"}

CandidateColumns == {"MONTANT_LIGNE", "MONTANT_LIGNE_EUR", "MONTANT_HT",
                     "PRIX_EUR", "PRIX_HT", "QUANTITE"}

SearchResults == UNION {[1..n -> CandidateColumns] : n \in 0..MaxResults}

\* r['column'].lower()
col_lower(c) ==
    CASE c = "MONTANT_LIGNE"     -> "montant_ligne"
      [] c = "MONTANT_LIGNE_EUR" -> "montant_ligne_eur"
      [] c = "MONTANT_HT"        -> "montant_ht"
      [] c = "PRIX_EUR"          -> "prix_eur"
      [] c = "PRIX_HT"           -> "prix_ht"
      [] c = "QUANTITE"          -> "quantite"

\* `sub in col_lower`, for the three substrings the code looks for
contains(sub, lc) ==
    CASE sub = "montant_ligne" -> lc \in {"montant_ligne", "montant_ligne_eur"}
      [] sub = "montant"       -> lc \in {"montant_ligne", "montant_ligne_eur",
                                          "montant_ht"}
      [] sub = "eur"           -> lc \in {"montant_ligne_eur", "prix_eur"}

\* the loop over results for an amount: a MONTANT_LIGNE column without EUR
\* ends the loop, a MONTANT column without EUR replaces best and the loop
\* goes on, any other column leaves best as it is
RECURSIVE amount_best(_, _, _)
amount_best(results, i, best) ==
    IF i > Len(results) THEN best
    ELSE LET lc == col_lower(results[i])
         IN IF contains("montant_ligne", lc) /\ ~contains("eur", lc)
            THEN results[i]
            ELSE IF contains("montant", lc) /\ ~contains("eur", lc)
            THEN amount_best(results, i + 1, results[i])
            ELSE amount_best(results, i + 1, best)

\* `if not results:` search again without the filter
results_used(filtered, fallback) == IF filtered # <<>> THEN filtered ELSE fallback

map_concept_to_column ==
    /\ m_pc = "called"
    /\ m_pc' = "returned"
    /\ LET results == results_used(m_filtered, m_fallback)
           best == IF m_concept = "amount"
                   THEN amount_best(results, 1, results[1])
                   ELSE results[1]
       IN IF results = <<>>
          THEN /\ m_best' = "none"
               /\ m_expr' = <<>>
          ELSE /\ m_best' = best
               /\ m_expr' = IF m_concept = "amount"
                            THEN <<"CAST(REPLACE(", best, ", ',', '.') AS DOUBLE)">>
                            ELSE <<best>>
    /\ UNCHANGED <<m_concept, m_filtered, m_fallback>>

MapInit ==
    /\ m_pc = "called"
    /\ m_concept \in MapConcepts
    /\ m_filtered \in SearchResults
    /\ m_fallback \in SearchResults
    /\ m_best = "none"
    /\ m_expr = <<>>

MapIdle ==
    /\ m_pc = "returned"
    /\ m_concept = "amount"
    /\ m_filtered = <<>>
    /\ m_fallback = <<>>
    /\ m_best = "none"
    /\ m_expr = <<>>

----------------------------------------------------------------------------
(* SchemaToolsService.suggest_query_structure                               *)

\* substrings of the lowered utterance the code tests for
QueryWords == {"montant", "total", "facture", "commande", "année", "nombre"}

StructTables == {"IA_Factures", "IA_Commandes", "IA_Reglements"}

StructRelationships == {<<"IA_Factures", "IA_Commandes">>,
                        <<"IA_Commandes", "IA_Reglements">>,
                        <<"IA_Factures", "IA_Reglements">>}

\* concept_patterns, in the order of the list
ConceptOrder == <<"amount", "invoice", "order", "year">>

\* re.search(pattern, query_lower)
concept_found(c, words) ==
    CASE c = "amount"  -> words \cap {"montant", "total"} # {}
      [] c = "invoice" -> "facture" \in words
      [] c = "order"   -> "commande" \in words
      [] c = "year"    -> "année" \in words

\* one mapping for each concept found, in pattern order, unless
\* _map_concept_to_column returned None
resolve_user_concepts(words, found) ==
    LET all == [i \in 1..Len(ConceptOrder) |->
                  [user_term |-> ConceptOrder[i],
                   table |-> IF concept_found(ConceptOrder[i], words)
                             THEN found[ConceptOrder[i]] ELSE "none"]]
    IN SelectSeq(all, LAMBDA m : m.table # "none")

\* list(set(m.table for m in mappings)): the tables in the set's iteration order
table_orders(mappings) ==
    LET S == {mappings[i].table : i \in 1..Len(mappings)}
    IN {l \in [1..Cardinality(S) -> S] :
          \A a, b \in 1..Cardinality(S) : a # b => l[a] # l[b]}

\* `kw in t.lower()`
table_has(kw, t) ==
    \/ kw = "facture" /\ t = "IA_Factures"
    \/ kw = "commande" /\ t = "IA_Commandes"

\* the first table of the list whose name holds the keyword, None without one
first_with(kw, all_tables) ==
    IF \E i \in 1..Len(all_tables) : table_has(kw, all_tables[i])
    THEN all_tables[CHOOSE i \in 1..Len(all_tables) :
                      /\ table_has(kw, all_tables[i])
                      /\ \A k \in 1..(i - 1) : ~table_has(kw, all_tables[k])]
    ELSE None

\* max(table_counts, key=table_counts.get): the first table, in the order the
\* mappings bring them, with the most mappings
most_mapped(mappings) ==
    LET cnt(t) == Cardinality({i \in 1..Len(mappings) : mappings[i].table = t})
        i0 == CHOOSE i \in 1..Len(mappings) :
                /\ \A k \in 1..Len(mappings) :
                      cnt(mappings[k].table) <= cnt(mappings[i].table)
                /\ \A k \in 1..(i - 1) :
                      cnt(mappings[k].table) < cnt(mappings[i].table)
    IN mappings[i0].table

primary_table_of(words, all_tables, mappings) ==
    LET by_context == IF "facture" \in words THEN first_with("facture", all_tables)
                      ELSE IF "commande" \in words
                      THEN first_with("commande", all_tables)
                      ELSE None
    IN IF by_context # None THEN by_context ELSE most_mapped(mappings)

\* the lists get_required_joins can return for the tables, one for each way
\* the iteration over joined_tables can fall
RECURSIVE joins_from(_, _, _, _, _)
joins_from(tables, i, joined, joins, rels) ==
    IF i > Len(tables) THEN {joins}
    ELSE LET target == tables[i]
             found == {j \in joined : in_rel_map(j, target, rels)}
         IN IF target \in joined \/ found = {}
            THEN joins_from(tables, i + 1, joined, joins, rels)
            ELSE UNION {joins_from(tables, i + 1, joined_after(joined, target),
                                   Append(joins, [table |-> target, on |-> j]),
                                   rels) : j \in found}

get_required_joins(tables, rels) ==
    IF Len(tables) <= 1 THEN {<<>>}
    ELSE joins_from(tables, 2, {tables[1]}, <<>>, rels)

\* [primary_table] + [t for t in all_tables if t != primary_table]
ordered_tables(primary, all_tables) ==
    <<primary>> \o SelectSeq(all_tables, LAMBDA t : t # primary)

\* mutant: the count keyword is not looked for
aggregations_without_count(words, mappings) ==
    IF "total" \in words /\ \E i \in 1..Len(mappings) : mappings[i].user_term = "amount"
    THEN {<<"amount", "SUM">>} ELSE {}

\* the aggregations dict, as its items
aggregations_of(words, mappings) ==
    (IF "total" \in words /\ \E i \in 1..Len(mappings) : mappings[i].user_term = "amount"
     THEN {<<"amount", "SUM">>} ELSE {})
    \cup (IF "nombre" \in words THEN {<<"count", "COUNT">>} ELSE {})

group_by_of(mappings, aggregations) ==
    SelectSeq(mappings, LAMBDA m : /\ m.user_term \notin {a[1] : a \in aggregations}
                                   /\ m.user_term # "amount")

NoStructure ==
    [error |-> TRUE, primary_table |-> None, mappings |-> <<>>,
     aggregations |-> {}, group_by |-> <<>>, suggested_tables |-> <<>>,
     required_joins |-> <<>>]

suggest_query_structure ==
    /\ Len(q_results) < MaxRuns
    /\ LET mappings == resolve_user_concepts(q_words, q_found)
       IN IF mappings = <<>>
          THEN q_results' = Append(q_results, NoStructure)
          ELSE \E all_tables \in table_orders(mappings) :
                 LET primary == primary_table_of(q_words, all_tables, mappings)
                     aggregations == aggregations_of(q_words, mappings)
                 IN \E joins \in (IF Len(all_tables) > 1
                                  THEN get_required_joins(
                                         ordered_tables(primary, all_tables), q_rels)
                                  ELSE {<<>>}) :
                      q_results' = Append(q_results,
                          [error |-> FALSE,
                           primary_table |-> primary,
                           mappings |-> mappings,
                           aggregations |-> aggregations,
                           group_by |-> group_by_of(mappings, aggregations),
                           suggested_tables |-> all_tables,
                           required_joins |-> joins])
    /\ UNCHANGED <<q_words, q_found, q_rels>>

StructInit ==
    /\ q_words \in SUBSET QueryWords
    /\ q_found \in [{ConceptOrder[i] : i \in 1..Len(ConceptOrder)}
                      -> StructTables \cup {"none"}]
    /\ \A i \in 1..Len(ConceptOrder) :
          ~concept_found(ConceptOrder[i], q_words) => q_found[ConceptOrder[i]] = "none"
    /\ q_rels \in SUBSET StructRelationships
    /\ q_results = <<>>

StructIdle ==
    /\ q_words = {}
    /\ q_found = [c \in {ConceptOrder[i] : i \in 1..Len(ConceptOrder)} |-> "none"]
    /\ q_rels = {}
    /\ q_results = <<>>

----------------------------------------------------------------------------
(* SchemaToolsService.validate_sql, as sql_validator_node calls it          *)

SchemaTables == {"Invoices", "Orders"}

\* names a statement gives after FROM or JOIN
TableNames == {"Invoices", "Orders", "Facture", "invoices"}

\* the characters of a name
NameChars(n) ==
    CASE n = "Invoices" -> <<"I", "n", "v", "o", "i", "c", "e", "s">>
      [] n = "invoices" -> <<"i", "n", "v", "o", "i", "c", "e", "s">>
      [] n = "Orders"   -> <<"O", "r", "d", "e", "r", "s">>
      [] n = "Facture"  -> <<"F", "a", "c", "t", "u", "r", "e">>
      [] n = "d"        -> <<"d">>
      [] n = "recent"   -> <<"r", "e", "c", "e", "n", "t">>

\* str.lower()
name_lower(n) ==
    [i \in 1..Len(NameChars(n)) |->
        CASE NameChars(n)[i] = "I" -> "i"
          [] NameChars(n)[i] = "O" -> "o"
          [] NameChars(n)[i] = "F" -> "f"
          [] OTHER -> NameChars(n)[i]]

\* `a in b` on strings
is_in(a, b) ==
    \E k \in 0..(Len(b) - Len(a)) : SubSeq(b, k + 1, k + Len(a)) = a

\* the first candidate that satisfies P, None without one
first_candidate(candidates, P(_)) ==
    IF \E i \in 1..Len(candidates) : P(candidates[i])
    THEN candidates[CHOOSE i \in 1..Len(candidates) :
                      /\ P(candidates[i])
                      /\ \A k \in 1..(i - 1) : ~P(candidates[k])]
    ELSE None

_find_similar_name(name, candidates) ==
    LET exact(c) == name_lower(c) = name_lower(name)
        partial(c) == \/ is_in(name_lower(name), name_lower(c))
                      \/ is_in(name_lower(c), name_lower(name))
    IN IF first_candidate(candidates, exact) # None
       THEN first_candidate(candidates, exact)
       ELSE first_candidate(candidates, partial)

\* statements, as tokens, with the tables they read
ValidStatements ==
    {[tokens |-> <<"SELECT", "*", "FROM", t>>, reads |-> {t}] : t \in TableNames}
    \cup {[tokens |-> <<"select", "*", "from", "\"Invoices\"">>, reads |-> {"Invoices"}]}
    \cup {[tokens |-> <<"SELECT", "*", "FROM", t, "JOIN", u>>, reads |-> {t, u}] :
            t, u \in TableNames}
    \cup {[tokens |-> <<"SELECT", "*", "FROM", "(", "SELECT", "*", "FROM", t, ")">>,
           reads |-> {t}] : t \in TableNames}
    \cup {[tokens |-> <<"SELECT", "EXTRACT", "(", "YEAR", "FROM", "d", ")", "FROM", t>>,
           reads |-> {t}] : t \in TableNames}
    \cup {[tokens |-> <<"WITH", "recent", "AS", "(", "SELECT", "*", "FROM", t, ")",
                        "SELECT", "*", "FROM", "recent">>,
           reads |-> {t}] : t \in TableNames}

\* re.IGNORECASE on the keywords FROM and JOIN
is_from_or_join(tok) == tok \in {"FROM", "from", "JOIN", "join"}

\* the token starts with a character of ["\w]
is_name(tok) == tok \notin {"(", ")", "*"}

\* t.strip('"')
strip_quotes(tok) == IF tok = "\"Invoices\"" THEN "Invoices" ELSE tok

\* re.findall(table_pattern, sql): what follows each FROM or JOIN
RECURSIVE referenced_from(_, _)
referenced_from(tokens, i) ==
    IF i >= Len(tokens) THEN <<>>
    ELSE IF is_from_or_join(tokens[i]) /\ is_name(tokens[i + 1])
         THEN <<strip_quotes(tokens[i + 1])>> \o referenced_from(tokens, i + 1)
         ELSE referenced_from(tokens, i + 1)

referenced_tables(tokens) == referenced_from(tokens, 1)

\* the store resolves table names without regard to case and rejects a
\* statement that reads a table it does not hold
ExplainResults == {"ok", "error", "column_not_found"}

explain_of(stmt, all_tables) ==
    IF \E t \in stmt.reads :
          \A i \in 1..Len(all_tables) : name_lower(all_tables[i]) # name_lower(t)
    THEN {"error"}
    ELSE ExplainResults

\* one error, and one suggestion when a similar table is found, for each
\* referenced name that is not in all_tables
RECURSIVE table_findings(_, _, _)
table_findings(referenced, i, all_tables) ==
    IF i > Len(referenced) THEN [errors |-> <<>>, suggestions |-> <<>>]
    ELSE LET rest == table_findings(referenced, i + 1, all_tables)
             table == referenced[i]
             similar == _find_similar_name(table, all_tables)
         IN IF \E k \in 1..Len(all_tables) : all_tables[k] = table
            THEN rest
            ELSE [errors |-> <<[kind |-> "table", name |-> table]>> \o rest.errors,
                  suggestions |->
                     (IF similar # None
                      THEN <<[kind |-> "table", name |-> table, similar |-> similar]>>
                      ELSE <<>>) \o rest.suggestions]

\* mutant: the result is valid as soon as EXPLAIN accepts the statement
is_valid_by_explain(explain, errors) == explain = "ok"

\* is_valid and len(errors) == 0
is_valid_of(explain, errors) == explain = "ok" /\ Len(errors) = 0

validate_sql(stmt, all_tables, explain, similar_col) ==
    LET found == table_findings(referenced_tables(stmt.tokens), 1, all_tables)
        errors == found.errors \o
                  (IF explain = "ok" THEN <<>>
                   ELSE <<[kind |-> "syntax", name |-> explain]>>)
        suggestions == found.suggestions \o
                  (IF explain = "column_not_found" /\ similar_col
                   THEN <<[kind |-> "column", name |-> "bad_col", similar |-> "best"]>>
                   ELSE <<>>)
    IN [is_valid |-> is_valid_of(explain, errors),
        errors |-> errors,
        suggestions |-> suggestions]

NoValidation == [is_valid |-> FALSE, errors |-> <<>>, suggestions |-> <<>>]

\* sql_validator_node on a statement that is neither empty nor the sentinel
validator_validates ==
    /\ v_pc = "called"
    /\ v_pc' = "returned"
    /\ v_result' = validate_sql(v_stmt, v_tables, v_explain, v_similar_col)
    /\ v_next_step' = validator_next_step(v_result'.is_valid)
    /\ v_node' = route_validator(v_next_step')
    /\ UNCHANGED <<v_stmt, v_tables, v_explain, v_similar_col>>

ValidInit ==
    /\ v_pc = "called"
    /\ v_stmt \in ValidStatements
    /\ v_tables \in {l \in UNION {[1..n -> SchemaTables] : n \in 0..2} :
                        \A a, b \in 1..Len(l) : a # b => l[a] # l[b]}
    /\ v_explain \in explain_of(v_stmt, v_tables)
    /\ v_similar_col \in BOOLEAN
    /\ v_result = NoValidation
    /\ v_next_step = "unset"
    /\ v_node = "sql_validator"

ValidIdle ==
    /\ v_pc = "returned"
    /\ v_stmt = [tokens |-> <<>>, reads |-> {}]
    /\ v_tables = <<>>
    /\ v_explain = "ok"
    /\ v_similar_col = FALSE
    /\ v_result = NoValidation
    /\ v_next_step = "unset"
    /\ v_node = "sql_validator"

----------------------------------------------------------------------------
(* DuckDBService.validate_table_name and the operations that call it        *)

LowerAlphabet == <<"a", "b", "c", "d", "e", "f", "g", "h", "i", "j", "k", "l", "m",
                   "n", "o", "p", "q", "r", "s", "t", "u", "v", "w", "x", "y", "z">>

UpperAlphabet == <<"A", "B", "C", "D", "E", "F", "G", "H", "I", "J", "K", "L", "M",
                   "N", "O", "P", "Q", "R", "S", "T", "U", "V", "W", "X", "Y", "Z">>

Digits == {"0", "1", "2", "3", "4", "5", "6", "7", "8", "9"}

is_letter(c) == \E i \in 1..26 : c = LowerAlphabet[i] \/ c = UpperAlphabet[i]

\* str.upper(), character by character
upper(name) ==
    [k \in 1..Len(name) |->
        IF \E i \in 1..26 : name[k] = LowerAlphabet[i]
        THEN UpperAlphabet[CHOOSE i \in 1..26 : name[k] = LowerAlphabet[i]]
        ELSE name[k]]

\* TABLE_NAME_PATTERN.match(name) for ^[a-zA-Z_][a-zA-Z0-9_]*$ : `$` matches
\* at the end of the string and also just before a newline that ends it
pattern_match(name) ==
    LET core == IF Len(name) > 0 /\ name[Len(name)] = "\n"
                THEN SubSeq(name, 1, Len(name) - 1) ELSE name
    IN /\ Len(core) >= 1
       /\ is_letter(core[1]) \/ core[1] = "_"
       /\ \A i \in 2..Len(core) :
             is_letter(core[i]) \/ core[i] \in Digits \/ core[i] = "_"

sql_keywords ==
    {<<"S", "E", "L", "E", "C", "T">>, <<"I", "N", "S", "E", "R", "T">>,
     <<"U", "P", "D", "A", "T", "E">>, <<"D", "E", "L", "E", "T", "E">>,
     <<"D", "R", "O", "P">>, <<"C", "R", "E", "A", "T", "E">>,
     <<"A", "L", "T", "E", "R">>, <<"T", "R", "U", "N", "C", "A", "T", "E">>,
     <<"T", "A", "B", "L", "E">>, <<"D", "A", "T", "A", "B", "A", "S", "E">>,
     <<"U", "N", "I", "O", "N">>, <<"J", "O", "I", "N">>}

\* TRUE when validate_table_name returns, FALSE when it raises ValueError
validate_table_name(name) ==
    /\ name # <<>>
    /\ pattern_match(name)
    /\ upper(name) \notin sql_keywords

NameAlphabet == {"t", "_", "1", "!", "\n"}

valid_table_1 == <<"v", "a", "l", "i", "d", "_", "t", "a", "b", "l", "e", "_", "1">>

\* the names the operations are called with
NameInputs ==
    UNION {[1..n -> NameAlphabet] : n \in 0..MaxNameLen}
    \cup {valid_table_1,
          <<"I", "n", "v", "a", "l", "i", "d", " ", "T", "a", "b", "l", "e", "!">>,
          <<"d", "r", "o", "p">>, <<"D", "r", "o", "p">>, <<"d", "r", "o", "p", "\n">>,
          <<"t", "a", "b", "l", "e">>, <<"j", "o", "i", "n", "s">>}

\* an operation: validate_table_name first, then its statement
store_operation(op, name, ok) ==
    /\ n_pc = "idle"
    /\ n_pc' = "returned"
    /\ n_op' = op
    /\ n_name' = name
    /\ IF ~validate_table_name(name)
       THEN /\ n_outcome' = "ValueError"
            /\ UNCHANGED <<n_sent, n_store, n_cache>>
       ELSE /\ n_sent' = Append(n_sent, [op |-> op, name |-> name])
            /\ n_outcome' = IF ok THEN "done" ELSE "raised"
            /\ n_store' = IF ~ok THEN n_store
                          ELSE IF op = "load_csv" THEN n_store \cup {name}
                          ELSE IF op = "delete_table" THEN n_store \ {name}
                          ELSE n_store
            /\ n_cache' = IF ok /\ op = "load_csv" THEN "empty" ELSE n_cache

\* CREATE OR REPLACE TABLE "name" AS ..., then _invalidate_schema_cache;
\* reading the file can fail
load_csv == \E name \in NameInputs, ok \in BOOLEAN : store_operation("load_csv", name, ok)

\* DESCRIBE "name"; fails for a table the store does not hold
get_schema == \E name \in NameInputs : store_operation("get_schema", name, name \in n_store)

\* DESCRIBE "name" and SELECT * FROM "name" LIMIT n
get_table_content ==
    \E name \in NameInputs : store_operation("get_table_content", name, name \in n_store)

\* DROP TABLE IF EXISTS "name"
drop_table == \E name \in NameInputs : store_operation("delete_table", name, TRUE)

\* SELECT COUNT(*) FROM "name"
get_row_count ==
    \E name \in NameInputs : store_operation("get_row_count", name, name \in n_store)

NameInit ==
    /\ n_pc = "idle"
    /\ n_op = "none"
    /\ n_name = <<>>
    /\ n_outcome = "none"
    /\ n_sent = <<>>
    /\ n_store \in {{}, {<<"t">>}, {<<"t">>, <<"t", "\n">>}}
    /\ n_cache \in {"empty", "filled"}

NameIdle ==
    /\ n_pc = "returned"
    /\ n_op = "none"
    /\ n_name = <<>>
    /\ n_outcome = "none"
    /\ n_sent = <<>>
    /\ n_store = {}
    /\ n_cache = "empty"

----------------------------------------------------------------------------
(* chat.py: websocket_endpoint and ConnectionManager.send_personal_message  *)

\* what websocket.send_text raises on a connection the client has left
SendErrors == {"RuntimeError", "Exception"}

\* send_personal_message: `except RuntimeError: pass`, `except Exception: print`
send_log(exc) == IF exc = "RuntimeError" THEN "pass" ELSE "printed"

\* the loop goes on to the next response whether or not send_text raised,
\* since send_personal_message lets no exception out
pending_after(pending, open) == pending - 1

\* the client goes away
client_disconnects ==
    /\ c_pc # "closed"
    /\ c_open
    /\ c_open' = FALSE
    /\ UNCHANGED <<c_pc, c_turns, c_pending, c_failed, c_log, c_delivered,
                   c_after_failure>>

\* `data = await websocket.receive_text()`: a turn starts, or
\* WebSocketDisconnect ends the endpoint
receive_text ==
    /\ c_pc = "receive"
    /\ IF c_open
       THEN /\ c_turns < MaxTurns
            /\ c_pc' = "streaming"
            /\ c_turns' = c_turns + 1
            /\ c_pending' \in 1..MaxOutputs
            /\ c_failed' = FALSE
            /\ c_delivered' = 0
            /\ c_after_failure' = 0
       ELSE /\ c_pc' = "closed"
            /\ UNCHANGED <<c_turns, c_pending, c_failed, c_delivered, c_after_failure>>
    /\ UNCHANGED <<c_open, c_log>>

\* one round of `async for response in process_message(...)`:
\* send_personal_message(response, websocket)
forward_response ==
    /\ c_pc = "streaming"
    /\ c_pending > 0
    /\ IF c_open
       THEN /\ c_log' = "sent"
            /\ c_delivered' = c_delivered + 1
            /\ UNCHANGED c_failed
       ELSE /\ \E exc \in SendErrors : c_log' = send_log(exc)
            /\ c_failed' = TRUE
            /\ UNCHANGED c_delivered
    /\ c_after_failure' = IF c_failed THEN c_after_failure + 1 ELSE c_after_failure
    /\ c_pending' = pending_after(c_pending, c_open)
    /\ UNCHANGED <<c_pc, c_open, c_turns>>

\* process_message has nothing more to yield: back to receive_text
turn_ends ==
    /\ c_pc = "streaming"
    /\ c_pending = 0
    /\ c_pc' = "receive"
    /\ UNCHANGED <<c_open, c_turns, c_pending, c_failed, c_log, c_delivered,
                   c_after_failure>>

\* process_message raises: `except Exception` sends an error message and the
\* endpoint goes back to receive_text
turn_raises ==
    /\ c_pc = "streaming"
    /\ c_pending > 0
    /\ IF c_open
       THEN /\ c_log' = "sent"
            /\ c_delivered' = c_delivered + 1
            /\ UNCHANGED c_failed
       ELSE /\ \E exc \in SendErrors : c_log' = send_log(exc)
            /\ c_failed' = TRUE
            /\ UNCHANGED c_delivered
    /\ c_after_failure' = IF c_failed THEN c_after_failure + 1 ELSE c_after_failure
    /\ c_pending' = 0
    /\ c_pc' = "receive"
    /\ UNCHANGED <<c_open, c_turns>>

ChatInit ==
    /\ c_pc = "receive"
    /\ c_open = TRUE
    /\ c_turns = 0
    /\ c_pending = 0
    /\ c_failed = FALSE
    /\ c_log = "sent"
    /\ c_delivered = 0
    /\ c_after_failure = 0

ChatIdle ==
    /\ c_pc = "closed"
    /\ c_open = FALSE
    /\ c_turns = 0
    /\ c_pending = 0
    /\ c_failed = FALSE
    /\ c_log = "sent"
    /\ c_delivered = 0
    /\ c_after_failure = 0

----------------------------------------------------------------------------
(* RelationshipService (relationship_service.py) and import_relationships   *)
(* (api/endpoints/relationships.py) on data/relationships.json              *)

\* the endpoints are plain `def` functions: each request runs on a thread of
\* the server's pool
RelThreads == {"r1", "r2"}

StoredPairs == {<<"A", "B">>, <<"B", "A">>, <<"B", "C">>}
Descriptions == {"", "fk"}

\* Relationship.dict()
Relationship(pair, d) ==
    [table_source |-> pair[1], column_source |-> key_column(pair[1]),
     table_target |-> pair[2], column_target |-> key_column(pair[2]),
     description |-> d]

RelationshipRecords == {Relationship(p, d) : p \in StoredPairs, d \in Descriptions}

\* the four fields add_relationship and delete_relationship compare
tuple_of(r) ==
    <<r.table_source, r.column_source, r.table_target, r.column_target>>

RelTuples == {tuple_of(r) : r \in RelationshipRecords}

\* an uploaded file that parses as a list of relationship records
Documents == UNION {[1..n -> RelationshipRecords] : n \in 0..MaxDoc}

\* the length of json.dump(relationships, f, indent=2): the names of the
\* model's tables and columns are equally long, so only the number of records
\* and their descriptions make a difference
RECURSIVE json_size(_)
json_size(rels) ==
    IF rels = <<>> THEN 2
    ELSE 150 + (IF Head(rels).description = "" THEN 0 ELSE 2)
         + json_size(Tail(rels))

\* get_relationships: a file that does not parse reads as []
get_relationships == IF r_readable THEN r_text ELSE <<>>

\* the loop of add_relationship finds a record with the same four fields
has_tuple(rels, key) == \E i \in 1..Len(rels) : tuple_of(rels[i]) = key

\* the list comprehension of delete_relationship
without_tuple(rels, key) == SelectSeq(rels, LAMBDA r : tuple_of(r) # key)

\* _save_relationships, run to its end with no other request in between
_save_relationships(rels) ==
    /\ r_text' = rels
    /\ r_readable' = TRUE
    /\ r_size' = json_size(rels)

IdleRequest == [pc |-> "idle", rel |-> <<>>, relationships |-> <<>>]

\* ---- one request at a time

add_relationship(rel) ==
    /\ \A t \in RelThreads : r_th[t].pc = "idle"
    /\ IF has_tuple(get_relationships, tuple_of(rel))
       THEN UNCHANGED <<r_text, r_readable, r_size>>
       ELSE _save_relationships(Append(get_relationships, rel))
    /\ UNCHANGED r_th

delete_relationship(key) ==
    /\ \A t \in RelThreads : r_th[t].pc = "idle"
    /\ _save_relationships(without_tuple(get_relationships, key))
    /\ UNCHANGED r_th

reset_relationships ==
    /\ \A t \in RelThreads : r_th[t].pc = "idle"
    /\ _save_relationships(<<>>)
    /\ UNCHANGED r_th

\* the upload parses as a list: its bytes replace the file
import_relationships(doc) ==
    /\ \A t \in RelThreads : r_th[t].pc = "idle"
    /\ r_text' = doc
    /\ r_readable' = TRUE
    /\ r_size' = json_size(doc)
    /\ UNCHANGED r_th

\* ---- add_relationship step by step, for requests that overlap

\* relationships = self.get_relationships()
add_get(t, rel) ==
    /\ r_th[t].pc = "idle"
    /\ r_th' = [r_th EXCEPT ![t] = [pc |-> "checking", rel |-> <<rel>>,
                                    relationships |-> get_relationships]]
    /\ UNCHANGED <<r_text, r_readable, r_size>>

\* the duplicate check, the append, and open(self.file_path, "w"), which
\* truncates the file
add_open(t) ==
    /\ r_th[t].pc = "checking"
    /\ IF has_tuple(r_th[t].relationships, tuple_of(r_th[t].rel[1]))
       THEN /\ r_th' = [r_th EXCEPT ![t].pc = "returned"]
            /\ UNCHANGED <<r_text, r_readable, r_size>>
       ELSE /\ r_th' = [r_th EXCEPT
                           ![t].pc = "saving",
                           ![t].relationships = Append(@, r_th[t].rel[1])]
            /\ r_text' = <<>>
            /\ r_readable' = FALSE
            /\ r_size' = 0

\* json.dump and the close of the file: the text goes to offset 0 of this
\* request's descriptor; what another request wrote beyond its end stays
add_dump(t) ==
    /\ r_th[t].pc = "saving"
    /\ LET size == json_size(r_th[t].relationships) IN
          IF r_size <= size
          THEN /\ r_text' = r_th[t].relationships
               /\ r_readable' = TRUE
               /\ r_size' = size
          ELSE /\ r_text' = <<>>
               /\ r_readable' = FALSE
               /\ UNCHANGED r_size
    /\ r_th' = [r_th EXCEPT ![t].pc = "returned"]

\* _ensure_file: json.dump([], f)
RelInit ==
    /\ r_text = <<>>
    /\ r_readable = TRUE
    /\ r_size = 2
    /\ r_th = [t \in RelThreads |-> IdleRequest]

\* the file as earlier requests left it: at most one record
AddInit ==
    /\ r_text \in {doc \in Documents : Len(doc) <= 1}
    /\ r_readable = TRUE
    /\ r_size = json_size(r_text)
    /\ r_th = [t \in RelThreads |-> IdleRequest]

RelIdle ==
    /\ r_text = <<>>
    /\ r_readable = TRUE
    /\ r_size = 2
    /\ r_th = [t \in RelThreads |-> IdleRequest]

----------------------------------------------------------------------------
(* AgentService.process_message and HistoryService (history_service.py)     *)

\* get_messages(self, session_id, limit: int = 100)
limit == 100

\* a row of the messages table; created_at defaults to CURRENT_TIMESTAMP
message_row(id, role, turn, at) ==
    [id |-> id, role |-> role, turn |-> turn, created_at |-> at]

\* add_message: INSERT INTO messages
add_message(msgs, role, turn, at) ==
    Append(msgs, message_row(Len(msgs) + 1, role, turn, at))

\* the rows that can come last in the result of
\* `SELECT ... ORDER BY created_at ASC LIMIT ?`: the row at place
\* min(number of rows, limit) of the order by created_at, in which rows of
\* the same second can come either way round
last_rows(msgs, lim) ==
    LET place == Min(Len(msgs), lim)
        before(m) == Cardinality({i \in 1..Len(msgs) :
                                     msgs[i].created_at < m.created_at})
        upto(m) == Cardinality({i \in 1..Len(msgs) :
                                   msgs[i].created_at <= m.created_at})
    IN {msgs[i] : i \in {x \in 1..Len(msgs) :
                            before(msgs[x]) < place /\ place <= upto(msgs[x])}}

\* a session of k turns with one saved answer each, a second apart
earlier_turns(k) ==
    [i \in 1..(2 * k) |->
        message_row(i, IF i % 2 = 1 THEN "user" ELSE "assistant",
                    (i + 1) \div 2, i)]

\* the clock moves on, at most one second past the newest row
clock_ticks ==
    /\ IF h_messages = <<>> THEN h_now = 0
       ELSE h_now = h_messages[Len(h_messages)].created_at
    /\ h_now' = h_now + 1
    /\ UNCHANGED <<h_messages, h_pc, h_turn, h_new, h_replies, h_seed>>

\* process_message up to app.astream(inputs): the user message is saved,
\* the history is read back and becomes the transcript
process_message ==
    /\ h_pc = "idle"
    /\ h_new < MaxTurns
    /\ LET saved == add_message(h_messages, "user", h_turn + 1, h_now) IN
          /\ h_messages' = saved
          /\ \E last \in last_rows(saved, limit) : h_seed' = <<last>>
    /\ h_turn' = h_turn + 1
    /\ h_new' = h_new + 1
    /\ h_replies' = 0
    /\ h_pc' = "streaming"
    /\ UNCHANGED h_now

\* a message of data_analyst, sql_executor or chart_generator is saved
save_reply ==
    /\ h_pc = "streaming"
    /\ h_replies < MaxReplies
    /\ h_messages' = add_message(h_messages, "assistant", h_turn, h_now)
    /\ h_replies' = h_replies + 1
    /\ UNCHANGED <<h_now, h_pc, h_turn, h_new, h_seed>>

\* app.astream is exhausted
stream_ends ==
    /\ h_pc = "streaming"
    /\ h_pc' = "idle"
    /\ UNCHANGED <<h_messages, h_now, h_turn, h_new, h_replies, h_seed>>

HistInit ==
    /\ \E k \in 0..MaxEarlier :
          /\ h_messages = earlier_turns(k)
          /\ h_now = 2 * k
          /\ h_turn = k
    /\ h_pc = "idle"
    /\ h_new = 0
    /\ h_replies = 0
    /\ h_seed = <<>>

HistIdle ==
    /\ h_messages = <<>>
    /\ h_now = 0
    /\ h_pc = "idle"
    /\ h_turn = 0
    /\ h_new = 0
    /\ h_replies = 0
    /\ h_seed = <<>>

----------------------------------------------------------------------------
(* Specifications *)

\* one turn of the workflow
Init ==
    /\ TurnInit
    /\ CacheIdle
    /\ ConnIdle
    /\ ExecIdle
    /\ JoinIdle
    /\ MapIdle
    /\ StructIdle
    /\ ValidIdle
    /\ NameIdle
    /\ ChatIdle
    /\ RelIdle
    /\ HistIdle

\* a step of the turn leaves the other machines alone
InTurn(A) ==
    A /\ UNCHANGED
    <<cacheVars, connVars, execVars, joinVars,
      mapVars, structVars, validVars, nameVars,
      chatVars, relVars, histVars>>

Next ==
    \/ InTurn(supervisor_node)
    \/ InTurn(csv_loader_node)
    \/ InTurn(schema_analyzer_node)
    \/ InTurn(sql_planner_node)
    \/ InTurn(sql_planner_raises)
    \/ InTurn(sql_validator_node)
    \/ InTurn(sql_validator_raises)
    \/ InTurn(sql_corrector_node)
    \/ InTurn(sql_corrector_raises)
    \/ InTurn(sql_executor_node)
    \/ InTurn(data_analyst_node)
    \/ InTurn(data_analyst_raises)
    \/ InTurn(chart_generator_node)

Spec == Init /\ [][Next]_vars

\* the graph runner runs the next node as long as there is one
FairSpec == Spec /\ WF_vars(Next)

\* threads calling the store service: schema cache and clock
CacheSpecInit ==
    /\ CacheInit
    /\ TurnIdle
    /\ ConnIdle
    /\ ExecIdle
    /\ JoinIdle
    /\ MapIdle
    /\ StructIdle
    /\ ValidIdle
    /\ NameIdle
    /\ ChatIdle
    /\ RelIdle
    /\ HistIdle

InCache(A) ==
    A /\ UNCHANGED
    <<turnVars, connVars, execVars, joinVars,
      mapVars, structVars, validVars, nameVars,
      chatVars, relVars, histVars>>

CacheSpecNext ==
    \/ \E t \in Threads : InCache(gas_check(t))
    \/ \E t \in Threads : InCache(gas_list(t))
    \/ \E t \in Threads : InCache(gas_describe(t))
    \/ \E t \in Threads : InCache(gas_store(t))
    \/ \E t \in Threads : InCache(load_csv_execute(t))
    \/ \E t \in Threads : InCache(load_csv_invalidate(t))
    \/ \E t \in Threads : InCache(delete_table(t))
    \/ InCache(Tick)

CacheSpec == CacheSpecInit /\ [][CacheSpecNext]_vars

\* threads using the shared connection
ConnSpecInit ==
    /\ ConnInit
    /\ TurnIdle
    /\ CacheIdle
    /\ ExecIdle
    /\ JoinIdle
    /\ MapIdle
    /\ StructIdle
    /\ ValidIdle
    /\ NameIdle
    /\ ChatIdle
    /\ RelIdle
    /\ HistIdle

InConn(A) ==
    A /\ UNCHANGED
    <<turnVars, cacheVars, execVars, joinVars,
      mapVars, structVars, validVars, nameVars,
      chatVars, relVars, histVars>>

ConnSpecNext ==
    \/ \E t \in Threads : InConn(conn_start(t))
    \/ \E t \in Threads : InConn(conn_acquire(t))
    \/ \E t \in Threads : InConn(conn_call_begin(t))
    \/ \E t \in Threads : InConn(conn_call_end(t))
    \/ \E t \in Threads : InConn(conn_release(t))
    \/ \E t \in Threads : InConn(cache_acquire(t))
    \/ \E t \in Threads : InConn(cache_release(t))
    \/ \E t \in Threads : InConn(conn_finish(t))

ConnSpec == ConnSpecInit /\ [][ConnSpecNext]_vars

\* one call of execute_query
ExecSpecInit ==
    /\ ExecInit
    /\ TurnIdle
    /\ CacheIdle
    /\ ConnIdle
    /\ JoinIdle
    /\ MapIdle
    /\ StructIdle
    /\ ValidIdle
    /\ NameIdle
    /\ ChatIdle
    /\ RelIdle
    /\ HistIdle

InExec(A) ==
    A /\ UNCHANGED
    <<turnVars, cacheVars, connVars, joinVars,
      mapVars, structVars, validVars, nameVars,
      chatVars, relVars, histVars>>

ExecSpecNext ==
    \/ InExec(execute_query)
    \/ InExec(execute_query_raises)

ExecSpec == ExecSpecInit /\ [][ExecSpecNext]_vars

\* one call of get_required_joins
JoinSpecInit ==
    /\ JoinInit
    /\ TurnIdle
    /\ CacheIdle
    /\ ConnIdle
    /\ ExecIdle
    /\ MapIdle
    /\ StructIdle
    /\ ValidIdle
    /\ NameIdle
    /\ ChatIdle
    /\ RelIdle
    /\ HistIdle

InJoin(A) ==
    A /\ UNCHANGED
    <<turnVars, cacheVars, connVars, execVars,
      mapVars, structVars, validVars, nameVars,
      chatVars, relVars, histVars>>

JoinSpecNext ==
    \/ InJoin(join_start)
    \/ InJoin(join_step)
    \/ InJoin(join_return)

JoinSpec == JoinSpecInit /\ [][JoinSpecNext]_vars

\* one call of _map_concept_to_column
MapSpecInit ==
    /\ MapInit
    /\ TurnIdle
    /\ CacheIdle
    /\ ConnIdle
    /\ ExecIdle
    /\ JoinIdle
    /\ StructIdle
    /\ ValidIdle
    /\ NameIdle
    /\ ChatIdle
    /\ RelIdle
    /\ HistIdle

InMap(A) ==
    A /\ UNCHANGED
    <<turnVars, cacheVars, connVars, execVars,
      joinVars, structVars, validVars, nameVars,
      chatVars, relVars, histVars>>

MapSpecNext ==
    \/ InMap(map_concept_to_column)

MapSpec == MapSpecInit /\ [][MapSpecNext]_vars

\* calls of suggest_query_structure on the same utterance, index answers and relationships
StructSpecInit ==
    /\ StructInit
    /\ TurnIdle
    /\ CacheIdle
    /\ ConnIdle
    /\ ExecIdle
    /\ JoinIdle
    /\ MapIdle
    /\ ValidIdle
    /\ NameIdle
    /\ ChatIdle
    /\ RelIdle
    /\ HistIdle

InStruct(A) ==
    A /\ UNCHANGED
    <<turnVars, cacheVars, connVars, execVars,
      joinVars, mapVars, validVars, nameVars,
      chatVars, relVars, histVars>>

StructSpecNext ==
    \/ InStruct(suggest_query_structure)

StructSpec == StructSpecInit /\ [][StructSpecNext]_vars

\* one validation of a statement against a schema
ValidSpecInit ==
    /\ ValidInit
    /\ TurnIdle
    /\ CacheIdle
    /\ ConnIdle
    /\ ExecIdle
    /\ JoinIdle
    /\ MapIdle
    /\ StructIdle
    /\ NameIdle
    /\ ChatIdle
    /\ RelIdle
    /\ HistIdle

InValid(A) ==
    A /\ UNCHANGED
    <<turnVars, cacheVars, connVars, execVars,
      joinVars, mapVars, structVars, nameVars,
      chatVars, relVars, histVars>>

ValidSpecNext ==
    \/ InValid(validator_validates)

ValidSpec == ValidSpecInit /\ [][ValidSpecNext]_vars

\* one store operation on a table name
NameSpecInit ==
    /\ NameInit
    /\ TurnIdle
    /\ CacheIdle
    /\ ConnIdle
    /\ ExecIdle
    /\ JoinIdle
    /\ MapIdle
    /\ StructIdle
    /\ ValidIdle
    /\ ChatIdle
    /\ RelIdle
    /\ HistIdle

InName(A) ==
    A /\ UNCHANGED
    <<turnVars, cacheVars, connVars, execVars,
      joinVars, mapVars, structVars, validVars,
      chatVars, relVars, histVars>>

NameSpecNext ==
    \/ InName(load_csv)
    \/ InName(get_schema)
    \/ InName(get_table_content)
    \/ InName(drop_table)
    \/ InName(get_row_count)

NameSpec == NameSpecInit /\ [][NameSpecNext]_vars

\* one connection of the chat endpoint
ChatSpecInit ==
    /\ ChatInit
    /\ TurnIdle
    /\ CacheIdle
    /\ ConnIdle
    /\ ExecIdle
    /\ JoinIdle
    /\ MapIdle
    /\ StructIdle
    /\ ValidIdle
    /\ NameIdle
    /\ RelIdle
    /\ HistIdle

InChat(A) ==
    A /\ UNCHANGED
    <<turnVars, cacheVars, connVars, execVars,
      joinVars, mapVars, structVars, validVars,
      nameVars, relVars, histVars>>

ChatSpecNext ==
    \/ InChat(client_disconnects)
    \/ InChat(receive_text)
    \/ InChat(forward_response)
    \/ InChat(turn_ends)
    \/ InChat(turn_raises)

ChatSpec == ChatSpecInit /\ [][ChatSpecNext]_vars

\* relationship requests served one at a time
RelSpecInit ==
    /\ RelInit
    /\ TurnIdle
    /\ CacheIdle
    /\ ConnIdle
    /\ ExecIdle
    /\ JoinIdle
    /\ MapIdle
    /\ StructIdle
    /\ ValidIdle
    /\ NameIdle
    /\ ChatIdle
    /\ HistIdle

InRel(A) ==
    A /\ UNCHANGED
    <<turnVars, cacheVars, connVars, execVars,
      joinVars, mapVars, structVars, validVars,
      nameVars, chatVars, histVars>>

RelSpecNext ==
    \/ \E rel \in RelationshipRecords : InRel(add_relationship(rel))
    \/ \E key \in RelTuples : InRel(delete_relationship(key))
    \/ InRel(reset_relationships)
    \/ \E doc \in Documents : InRel(import_relationships(doc))

RelSpec == RelSpecInit /\ [][RelSpecNext]_vars

\* two requests to add a relationship, on two threads of the pool
AddSpecInit ==
    /\ AddInit
    /\ TurnIdle
    /\ CacheIdle
    /\ ConnIdle
    /\ ExecIdle
    /\ JoinIdle
    /\ MapIdle
    /\ StructIdle
    /\ ValidIdle
    /\ NameIdle
    /\ ChatIdle
    /\ HistIdle

AddSpecNext ==
    \/ \E t \in RelThreads, rel \in RelationshipRecords : InRel(add_get(t, rel))
    \/ \E t \in RelThreads : InRel(add_open(t))
    \/ \E t \in RelThreads : InRel(add_dump(t))

AddSpec == AddSpecInit /\ [][AddSpecNext]_vars

\* the turns of one session and its stored history
HistSpecInit ==
    /\ HistInit
    /\ TurnIdle
    /\ CacheIdle
    /\ ConnIdle
    /\ ExecIdle
    /\ JoinIdle
    /\ MapIdle
    /\ StructIdle
    /\ ValidIdle
    /\ NameIdle
    /\ ChatIdle
    /\ RelIdle

InHist(A) ==
    A /\ UNCHANGED
    <<turnVars, cacheVars, connVars, execVars,
      joinVars, mapVars, structVars, validVars,
      nameVars, chatVars, relVars>>

HistSpecNext ==
    \/ InHist(clock_ticks)
    \/ InHist(process_message)
    \/ InHist(save_reply)
    \/ InHist(stream_ends)

HistSpec == HistSpecInit /\ [][HistSpecNext]_vars

----------------------------------------------------------------------------
(* Claims about one turn *)

InLoop == node \in {"sql_validator", "sql_corrector", "sql_executor"}

\* C1: between two planner steps the corrector makes at most max_retries (3)
\* correction attempts, whatever the validator and the executor answer; the
\* corrector step that follows the third attempt hands control to the
\* interpreter (data_analyst); and the validator/corrector/executor loop is
\* always left.
C1_CorrectionLoopBounded ==
    /\ [](loopAttempts <= max_retries)
    /\ [][(node = "sql_corrector" /\ loopAttempts = max_retries)
             => node' = "data_analyst"]_vars
    /\ (InLoop ~> ~InLoop)

\* the corrector has given up after three attempts of one loop
C1_Witness ==
    /\ prev = "sql_corrector"
    /\ outcome = "max_retries"
    /\ loopAttempts = max_retries
    /\ node = "data_analyst"

\* C2: sql_retry_count stays within 0..max_retries in every state of a turn.
C2_RetryCountInRange == sql_retry_count \in 0..max_retries

\* the third attempt has been stored
C2_Witness == prev = "sql_corrector" /\ sql_retry_count = max_retries

\* C3: every turn ends: the workflow reaches END (or, at the least, is ended
\* by an exception leaving the graph) after finitely many node visits.
C3_EveryTurnEnds == <>(node \in Terminal)

\* C4: a turn holds at most max_retries correction attempts in total, and
\* after the corrector gave up on the budget no planner, validator or
\* corrector step runs again in the turn.
C4_ThreeAttemptsPerTurn ==
    /\ turnAttempts <= max_retries
    /\ exhausted => node \notin {"sql_planner", "sql_validator", "sql_corrector"}

C10_StoreErrorConsumesOneRetry ==
    /\ []((prev = "sql_executor" /\ outcome = "store_error") =>
            /\ node = "sql_corrector"
            /\ sql_error \in ErrorTexts
            /\ lastMsg # "data_result")
    /\ [][(/\ node = "sql_corrector"
           /\ prev = "sql_executor"
           /\ outcome = "store_error"
           /\ sql_retry_count < max_retries)
             => sql_retry_count' = sql_retry_count + 1]_vars

\* the corrector step that just ran gave up
GaveUp == prev = "sql_corrector" /\ outcome \in {"max_retries", "unable"}

C12_NoExceptionLeavesWorkflow == node # "ABORT"

\* C13: when the classification call of the router raises, or its answer
\* holds none of the worker labels, the router chooses data_analyst and the
\* turn goes on there; no router step ends the turn by an exception.
C13_RoutingFailureFallsBack ==
    /\ (prev = "supervisor" /\ outcome \in {"routing_error", "unclear"}) =>
            /\ next_step = "data_analyst"
            /\ node = "data_analyst"
    /\ prev = "supervisor" => node # "ABORT"

\* the classification call raised and the router fell back
C13_Witness ==
    /\ prev = "supervisor"
    /\ outcome = "routing_error"
    /\ node = "data_analyst"

\* C14: on a user utterance the router decides by the first literal rule
\* that matches, in the order load, stop, chart-result marker, chart, without
\* calling the classifier; the classifier is called, once, exactly when no
\* rule matches.
C14_LiteralRulesFirst ==
    (prev = "supervisor" /\ lastMsg = "human") =>
        LET kw == utter.kw
        IN /\ "load" \in kw => next_step = "csv_loader"
           /\ ("stop" \in kw /\ "load" \notin kw) => next_step = "FINISH"
           /\ ("chart_result" \in kw /\ kw \cap {"load", "stop"} = {})
                 => next_step = "FINISH"
           /\ ("chart" \in kw /\ kw \cap {"load", "stop", "chart_result"} = {})
                 => next_step = "chart_generator"
           /\ kw # {} => classifier_calls(outcome) = 0
           /\ kw = {} => classifier_calls(outcome) = 1

\* an utterance with a load and a chart keyword was routed by the load rule
C14_Witness ==
    /\ prev = "supervisor"
    /\ outcome = "rule"
    /\ {"load", "chart"} \subseteq utter.kw
    /\ node = "csv_loader"

\* C15: when schema resolution matches no concept, its 'could not
\* understand' message is appended and none of the planner, the validator,
\* the corrector and the executor is the next node: the turn ends.
C15_ResolutionFailureEndsTurn ==
    (prev = "schema_analyzer" /\ outcome = "error") =>
        /\ lastMsg = "analyzer_error"
        /\ node \notin {"sql_planner", "sql_validator", "sql_corrector",
                        "sql_executor"}

\* C16: an answer of the generation call that holds no SQL statement, or
\* nothing, makes sql_query the sentinel statement; the validator rejects
\* the sentinel and the empty statement and routes to the corrector; neither
\* is ever given to execute_query.
C16_NonSqlBecomesSentinel ==
    /\ (prev = "sql_planner" /\ outcome = "planned" /\ non_sql(raw_output))
          => sql_query = Sentinel
    /\ (prev = "sql_validator" /\ sql_query \in {Sentinel, EmptySQL})
          => node = "sql_corrector"
    /\ executed \notin {Sentinel, EmptySQL}

\* C17: when chart_generator finds no data result it records the request in
\* pending_chart_request and the turn goes on with schema resolution
\* (schema_analyzer), which is followed by planning.
C17_ChartFetchThroughResolution ==
    (prev = "chart_generator" /\ outcome = "fetch_first") =>
        /\ pending_chart_request # None
        /\ node = "schema_analyzer"

\* C18: when the interpreter (data_analyst) finishes with no pending chart
\* request, control is back at the router and the router ends the turn, in
\* chat mode and in sql mode: its step leads to END and to no worker node.
C18_InterpretationEndsTurn ==
    [][(node = "supervisor" /\ prev = "data_analyst") => node' = "END"]_vars

\* C19: when control comes back to chart_generator from the interpreter, the
\* chart generator does not hand off to planning again.
C19_ChartHandOffOnce ==
    [][(node = "chart_generator" /\ prev = "data_analyst")
          => node' # "sql_planner"]_vars

\* C29: a non-empty join list computed by schema resolution is carried in the
\* turn state to the planner and is in the planner's generation request.
C29_JoinsReachPlanner ==
    (/\ prev = "sql_planner"
     /\ outcome \in {"planned", "generation_raised"}
     /\ suggested_joins # <<>>)
        => /\ joins_in(query_structure) = suggested_joins
           /\ join_hint = suggested_joins

\* C30: within a turn no step decreases sql_retry_count, except a
\* successful execution, which sets it to 0 and clears sql_error.
C30_RetryCountMonotonic ==
    [][sql_retry_count' < sql_retry_count =>
          /\ prev' = "sql_executor"
          /\ outcome' = "success"
          /\ sql_retry_count' = 0
          /\ sql_error' = None]_vars

\* C31: the corrector hands the statement back to the validator only when it
\* has changed it; when the retries are exhausted or the error is left
\* unresolved it routes to the interpreter.
C31_ValidatorOnlyAfterFix ==
    [][(node = "sql_corrector" /\ prev' = "sql_corrector") =>
          /\ node' = "sql_validator" =>
                (outcome' = "fixed" /\ sql_query' # sql_query)
          /\ outcome' \in {"max_retries", "unable"} => node' = "data_analyst"]_vars

\* C35: a router step writes next_step and nothing else of the turn state:
\* the transcript, sql_query, sql_error, sql_retry_count,
\* pending_chart_request and resolved_concepts are as before it.
C35_RouterOnlyClassifies ==
    [][node = "supervisor" =>
          UNCHANGED <<lastMsg, sql_query, sql_error, sql_retry_count,
                      pending_chart_request, resolved_concepts>>]_vars

\* the router ran after the planning path had written a statement and the
\* resolved concepts
C35_Witness ==
    /\ prev = "supervisor"
    /\ sql_query \in Queries
    /\ resolved_concepts # None
    /\ lastMsg # "human"

\* C36: when the router runs and the last transcript entry is not a user
\* message, it chooses FINISH, the turn ends, and no classification call is
\* made; a turn in which a worker has run ends in no other way.
C36_RouterEndsAfterWorker ==
    [][/\ (node = "supervisor" /\ lastMsg # "human") =>
             /\ next_step' = "FINISH"
             /\ node' = "END"
             /\ classifier_calls(outcome') = 0
       /\ (node' = "END" /\ node # "END" /\ prev # "start") =>
             /\ node = "supervisor"
             /\ lastMsg # "human"]_vars

\* the loader appended its message and the router ended the turn
C36_Witness ==
    /\ node = "END"
    /\ prev = "supervisor"
    /\ outcome = "not_human"
    /\ lastMsg = "csv_loader"

----------------------------------------------------------------------------
(* Claims about the schema cache *)

\* C6: the first get_all_schemas call that begins after a load_csv or a
\* delete_table has returned does not answer from the cache: it re-queries
\* the store.
C6_MutationInvalidatesCache == lastCheck.afterMutation => ~lastCheck.hit

\* C7: get_all_schemas answers from the cache exactly when an entry was
\* stored less than SCHEMA_CACHE_TTL (60) seconds earlier and no invalidation
\* happened since; a read answered from the cache right after another read
\* returns the same content as that read; at the age of one TTL or more the
\* call goes to the store.
C7_CacheHitIffFresh ==
    lastCheck.checked =>
        /\ lastCheck.hit <=> lastCheck.fresh
        /\ (lastCheck.hit /\ lastCheck.consecutive) => lastCheck.same
        /\ lastCheck.age >= SCHEMA_CACHE_TTL => ~lastCheck.hit

\* a second read is answered from the cache in the last second of the window
C7_Witness ==
    /\ lastCheck.hit
    /\ lastCheck.consecutive
    /\ lastCheck.age = SCHEMA_CACHE_TTL - 1
    /\ lastReturned # NoTables

\* C32: once load_csv has returned (and no other load or drop has begun), a
\* get_all_schemas call that starts afterwards returns the schema of the
\* store as the load left it, whether it is answered from the cache or
\* from the store: a reader that started before the load leaves no
\* pre-load entry behind.
C32_NoStaleEntryAfterLoad ==
    [][\A t \in Threads :
          /\ (gas_check(t) /\ lastCheck'.hit /\ loadedSince)
                => lastReturned' = db
          /\ (gas_store(t) /\ loadedSince /\ t \notin readersBefore)
                => lastReturned' = db]_vars

----------------------------------------------------------------------------
(* Claims about the shared connection and about execute_query *)

UsingConn == {t \in Threads : cn[t].inCall}

\* C8: at most one thread is inside a call on the shared connection, and a
\* thread inside such a call holds _conn_lock.
C8_ConnectionCallsHoldLock ==
    /\ Cardinality(UsingConn) <= 1
    /\ \A t \in UsingConn : lockOwner = t

\* C9: a query that begins with SELECT or WITH and carries no LIMIT clause
\* comes back from execute_query with at most DEFAULT_LIMIT (1000) rows.
C9_RowCapWithoutLimit ==
    (ex_pc = "returned" /\ ~has_limit_clause(ex_query))
        => ex_returned <= DEFAULT_LIMIT

\* a thread waits for a lock another thread holds
Blocked(t) ==
    \/ Instr(t) = "acquire" /\ lockOwner \notin {"none", t}
    \/ Instr(t) = "cache_acquire" /\ cacheLockOwner \notin {"none", t}

\* C37: no thread holds _cache_lock and _conn_lock at once; a thread that
\* waits for a lock waits for a thread that is not itself waiting, so the
\* operations of the store service cannot deadlock; a thread that holds
\* _conn_lock and acquires it again gets it at once.
C37_LocksNeverNested ==
    \A t \in Threads :
        /\ ~(lockOwner = t /\ cacheLockOwner = t)
        /\ (Instr(t) = "acquire" /\ lockOwner \notin {"none", t})
              => ~Blocked(lockOwner)
        /\ (Instr(t) = "cache_acquire" /\ cacheLockOwner \notin {"none", t})
              => ~Blocked(cacheLockOwner)
        /\ (Instr(t) = "acquire" /\ lockOwner = t) => ENABLED conn_acquire(t)

\* get_table_content holds _conn_lock twice, through get_schema, while the
\* other thread waits for _conn_lock inside a schema read
C37_Witness ==
    /\ cn["t1"].op = "get_table_content"
    /\ lockOwner = "t1"
    /\ lockCount = 2
    /\ cn["t2"].op = "get_all_schemas"
    /\ Blocked("t2")

----------------------------------------------------------------------------
(* Claims about get_required_joins *)

\* the tables for which a clause is due, read off the statement of the claim:
\* going through the later tables in input order, a table gets a clause
\* exactly when a relationship links it to a table joined so far
RECURSIVE ClauseTables(_, _, _, _)
ClauseTables(tables, i, joined, rels) ==
    IF i > Len(tables) THEN <<>>
    ELSE IF \E j \in joined : <<j, tables[i]>> \in rels \/ <<tables[i], j>> \in rels
         THEN <<tables[i]>> \o ClauseTables(tables, i + 1, joined \cup {tables[i]}, rels)
         ELSE ClauseTables(tables, i + 1, joined, rels)

Undirected(rels) == rels \cup {<<r[2], r[1]>> : r \in rels}

\* C20: get_required_joins returns, in input order, one JOIN clause for each
\* later table that a direct relationship links to the first table or to a
\* table joined before it, and none for the others; each clause joins the
\* table to such an already joined table. [A, B, C] with A-B and B-C gives
\* the clauses for B and C, [A, C] with only B-C gives none, a list of at
\* most one table gives none.
C20_RequiredJoins ==
    j_pc = "returned" =>
        /\ Len(j_tables) <= 1 => j_joins = <<>>
        /\ Len(j_tables) >= 2 =>
             /\ [k \in 1..Len(j_joins) |-> j_joins[k].table]
                   = ClauseTables(j_tables, 2, {j_tables[1]}, j_rels)
             /\ \A k \in 1..Len(j_joins) :
                   /\ j_joins[k].on \in
                        {j_tables[1]} \cup {j_joins[m].table : m \in 1..(k - 1)}
                   /\ <<j_joins[k].on, j_joins[k].table>> \in Undirected(j_rels)
        /\ (/\ j_tables = <<"A", "B", "C">>
            /\ Undirected(j_rels) = Undirected({<<"A", "B">>, <<"B", "C">>}))
              => j_joins = <<[table |-> "B", on |-> "A"], [table |-> "C", on |-> "B"]>>
        /\ (j_tables = <<"A", "C">> /\ Undirected(j_rels) = Undirected({<<"B", "C">>}))
              => j_joins = <<>>

\* [A, B, C] was joined through B
C20_Witness ==
    /\ j_pc = "returned"
    /\ j_tables = <<"A", "B", "C">>
    /\ Len(j_joins) = 2
    /\ j_joins[2].on = "B"

\* C33: a relationship serves in either direction, each table that gets
\* joined has exactly one clause, and every clause pairs each column with
\* the table it belongs to in the stored relationship, whichever way the
\* relationship was stored.
C33_ClausesPairColumns ==
    j_pc = "returned" =>
        /\ Len(j_clauses) = Len(j_joins)
        /\ \A t \in {x \in j_joined : x # j_tables[1]} :
              Cardinality({k \in 1..Len(j_clauses) : j_clauses[k].table = t}) = 1
        /\ \A k \in 1..Len(j_clauses) :
              /\ j_clauses[k].table = j_joins[k].table
              /\ {j_clauses[k].left_table, j_clauses[k].right_table}
                    = {j_joins[k].table, j_joins[k].on}
              /\ j_clauses[k].left_column = key_column(j_clauses[k].left_table)
              /\ j_clauses[k].right_column = key_column(j_clauses[k].right_table)
        /\ (Len(j_tables) = 2 /\ <<j_tables[2], j_tables[1]>> \in j_rels)
              => Len(j_clauses) = 1

\* [A, B] was joined through a relationship stored from B to A
C33_Witness ==
    /\ j_pc = "returned"
    /\ j_tables = <<"A", "B">>
    /\ j_rels = {<<"B", "A">>}
    /\ Len(j_clauses) = 1
    /\ j_clauses[1].left_table = "A"
    /\ j_clauses[1].left_column = "a_id"

----------------------------------------------------------------------------
(* Claims about concept resolution *)

\* the column name carries the currency marker EUR
HasEurMarker(c) == contains("eur", col_lower(c))

\* C21: for an amount, when the candidate list holds a column without the
\* EUR marker, the column selected (and cast) is not one with the marker.
C21_AmountAvoidsEurColumn ==
    LET results == results_used(m_filtered, m_fallback)
    IN (/\ m_pc = "returned"
        /\ m_concept = "amount"
        /\ \E i \in 1..Len(results) : ~HasEurMarker(results[i]))
          => ~HasEurMarker(m_best)

\* C22: two runs on the same utterance, index answers and relationships give
\* the same mappings, the same primary table and the same join list.
C22_ResolutionDeterministic ==
    \A a, b \in 1..Len(q_results) :
        /\ q_results[a].mappings = q_results[b].mappings
        /\ q_results[a].primary_table = q_results[b].primary_table
        /\ q_results[a].required_joins = q_results[b].required_joins

\* the mappings of a result all lie on table t, an amount is among them and
\* the utterance holds a sum keyword
SumOnOneTable(r, t) ==
    /\ ~r.error
    /\ \A i \in 1..Len(r.mappings) : r.mappings[i].table = t
    /\ \E i \in 1..Len(r.mappings) : r.mappings[i].user_term = "amount"
    /\ "total" \in q_words

OthersThanAmount(r) == SelectSeq(r.mappings, LAMBDA m : m.user_term # "amount")

\* C26 as stated: mappings on one table, a sum keyword and an amount mapping
\* give that table as primary table, aggregations exactly {amount: SUM} and
\* group_by exactly the mappings other than amount.
C26_SumStructure_Original ==
    \A k \in 1..Len(q_results) : \A t \in StructTables :
        SumOnOneTable(q_results[k], t) =>
            /\ q_results[k].primary_table = t
            /\ q_results[k].aggregations = {<<"amount", "SUM">>}
            /\ q_results[k].group_by = OthersThanAmount(q_results[k])

\* C26 amended: the same, and aggregations is {amount: SUM} together with
\* {count: COUNT} exactly when the utterance also holds a count keyword.
C26_SumStructure ==
    \A k \in 1..Len(q_results) : \A t \in StructTables :
        SumOnOneTable(q_results[k], t) =>
            /\ q_results[k].primary_table = t
            /\ q_results[k].aggregations =
                  IF "nombre" \in q_words
                  THEN {<<"amount", "SUM">>, <<"count", "COUNT">>}
                  ELSE {<<"amount", "SUM">>}
            /\ q_results[k].group_by = OthersThanAmount(q_results[k])
            /\ (/\ Len(q_results[k].mappings) = 2
                /\ q_results[k].mappings[2].user_term = "year")
                  => q_results[k].group_by = <<q_results[k].mappings[2]>>

\* amount and year on IA_Factures with a sum keyword: SUM, grouped by year
C26_Witness ==
    /\ Len(q_results) >= 1
    /\ SumOnOneTable(q_results[1], "IA_Factures")
    /\ "nombre" \notin q_words
    /\ q_results[1].aggregations = {<<"amount", "SUM">>}
    /\ Len(q_results[1].group_by) = 1
    /\ q_results[1].group_by[1].user_term = "year"

----------------------------------------------------------------------------
(* Claims about validate_sql *)

InSchema(t) == \E k \in 1..Len(v_tables) : v_tables[k] = t

\* C23: for a statement that reads a table absent from the schema, the
\* result is invalid, holds a 'does not exist' error for the table and a
\* suggestion naming a known table in its place; Facture when only Invoices
\* exists gives the error and suggests Invoices.
C23_MissingTableSuggested ==
    v_pc = "returned" =>
        \A t \in v_stmt.reads :
            (~InSchema(t) /\ v_tables # <<>>) =>
                /\ ~v_result.is_valid
                /\ \E i \in 1..Len(v_result.errors) :
                      v_result.errors[i] = [kind |-> "table", name |-> t]
                /\ \E i \in 1..Len(v_result.suggestions) :
                      /\ v_result.suggestions[i].kind = "table"
                      /\ v_result.suggestions[i].name = t
                      /\ InSchema(v_result.suggestions[i].similar)
                /\ (t = "Facture" /\ v_tables = <<"Invoices">>) =>
                      \E i \in 1..Len(v_result.suggestions) :
                          v_result.suggestions[i] =
                             [kind |-> "table", name |-> "Facture", similar |-> "Invoices"]

\* C24: a validation result is valid exactly when its error list is empty.
C24_ValidIffNoErrors ==
    v_pc = "returned" => (v_result.is_valid <=> v_result.errors = <<>>)

\* EXPLAIN accepted the statement, the table check recorded an error, and the
\* result is invalid
C24_Witness ==
    /\ v_pc = "returned"
    /\ v_explain = "ok"
    /\ v_result.errors # <<>>
    /\ ~v_result.is_valid

\* C25: a statement that reads only tables of the schema under their
\* canonical names and that EXPLAIN accepts is routed to execution by its
\* first validation, without a call of the corrector.
C25_CanonicalPassesFirstValidation ==
    (/\ v_pc = "returned"
     /\ \A t \in v_stmt.reads : InSchema(t)
     /\ v_explain = "ok")
        => /\ v_next_step = "execute"
           /\ v_node = "sql_executor"

----------------------------------------------------------------------------
(* Claims about table names *)

\* a letter or underscore followed by letters, digits or underscores, and
\* not a reserved keyword
Conforming(name) ==
    /\ Len(name) >= 1
    /\ is_letter(name[1]) \/ name[1] = "_"
    /\ \A i \in 2..Len(name) : is_letter(name[i]) \/ name[i] \in Digits \/ name[i] = "_"
    /\ upper(name) \notin sql_keywords

\* C27: every operation that takes a table name rejects a name that is
\* empty, off the identifier pattern or a reserved keyword with ValueError
\* before any statement reaches the store, leaving store and schema cache
\* as they were; valid_table_1 is accepted.
C27_NameAllowList ==
    [][n_pc' = "returned" =>
          /\ ~Conforming(n_name') =>
                /\ n_outcome' = "ValueError"
                /\ UNCHANGED <<n_sent, n_store, n_cache>>
          /\ n_name' = valid_table_1 => n_outcome' # "ValueError"]_vars

----------------------------------------------------------------------------
(* Claims about the chat endpoint *)

\* C28: once a send of a turn has failed because the client is gone, the
\* endpoint hands no further response of that turn to the connection.
C28_StopsForwardingAfterDisconnect == c_after_failure = 0

----------------------------------------------------------------------------
(* Claims about the relationships file *)

\* C34: with the operations run one at a time, the stored list never holds
\* two records with the same (source table, source column, target table,
\* target column); adding a tuple that is stored leaves the list as it is;
\* delete removes the one record with the tuple and keeps the others.
C34_NoDuplicateTuples ==
    [][/\ \A i, j \in 1..Len(r_text') :
             tuple_of(r_text'[i]) = tuple_of(r_text'[j]) => i = j
       /\ \A rel \in RelationshipRecords :
             (add_relationship(rel) /\ has_tuple(r_text, tuple_of(rel)))
                => r_text' = r_text
       /\ \A key \in RelTuples :
             delete_relationship(key) =>
                /\ r_text' = without_tuple(r_text, key)
                /\ Len(r_text') >= Len(r_text) - 1]_vars

\* C39: requests that add relationships on two threads leave the file with
\* both records when their tuples differ, and with the tuple once when they
\* are the same.
C39_ConcurrentAddsAtomic ==
    (\A t \in RelThreads : r_th[t].pc = "returned") =>
        /\ r_readable
        /\ \A t \in RelThreads : has_tuple(r_text, tuple_of(r_th[t].rel[1]))
        /\ \A t \in RelThreads :
              Len(without_tuple(r_text, tuple_of(r_th[t].rel[1])))
                 = Len(r_text) - 1

----------------------------------------------------------------------------
(* Claims about the seeded transcript *)

\* C38: whatever the length of the session history, the transcript the
\* workflow is seeded with ends with the user message of the turn that
\* process_message was called for.
C38_TranscriptEndsWithCurrent ==
    h_pc = "streaming" =>
        /\ h_seed # <<>>
        /\ h_seed[1].role = "user"
        /\ h_seed[1].turn = h_turn

====
